---- MODULE Spec2Model ----
(***************************************************************************)
(* Model of the document extraction pipeline:                              *)
(*   src/src/core/document_processor.py   DocumentProcessor                *)
(*   src/src/agents/document_router.py    DocumentRouter                   *)
(*   src/src/agents/ocr_processor.py      OCRProcessor                     *)
(*   src/src/agents/extraction_agent.py   ExtractionAgent                  *)
(*   src/src/agents/validation_agent.py   ValidationAgent                  *)
(*   src/src/models/document_models.py    pydantic models                  *)
(*                                                                         *)
(* Strings the code inspects (field names, field values, OCR words) are    *)
(* sequences of one-character strings.  Python floats are modelled as      *)
(* exact rationals <<numerator, denominator>> in lowest terms, so binary   *)
(* rounding is not represented.  Rule tags, document types and exception   *)
(* messages are atomic strings.                                            *)
(***************************************************************************)
EXTENDS Integers, Sequences, FiniteSets, TLC

(***************************************************************************)
(* Float arithmetic (exact rationals)                                      *)
(***************************************************************************)
Abs(x) == IF x < 0 THEN -x ELSE x

RECURSIVE GCD(_, _)
GCD(a, b) == IF b = 0 THEN a ELSE GCD(b, a % b)

Rat(n, d) ==
    LET Reduce(g, s) == <<(s * n) \div g, (s * d) \div g>>
    IN  Reduce(GCD(Abs(n), Abs(d)), IF d < 0 THEN -1 ELSE 1)

RAdd(a, b) == Rat(a[1] * b[2] + b[1] * a[2], a[2] * b[2])
RSub(a, b) == Rat(a[1] * b[2] - b[1] * a[2], a[2] * b[2])
RMul(a, b) == Rat(a[1] * b[1], a[2] * b[2])
RDivInt(a, n) == Rat(a[1], a[2] * n)
RAbs(a) == <<Abs(a[1]), a[2]>>
RLt(a, b) == a[1] * b[2] < b[1] * a[2]
RLe(a, b) == a[1] * b[2] <= b[1] * a[2]
RMax(a, b) == IF RLt(a, b) THEN b ELSE a
RMin(a, b) == IF RLt(b, a) THEN b ELSE a

Zero == <<0, 1>>
One == <<1, 1>>
Pct(p) == Rat(p, 100)

RECURSIVE RSum(_)
RSum(s) == IF s = <<>> THEN Zero ELSE RAdd(s[1], RSum(Tail(s)))

InUnit(r) == RLe(Zero, r) /\ RLe(r, One)

(* min(max(x, 0.0), 1.0) *)
Clamp01(x) == RMin(RMax(x, Zero), One)

(***************************************************************************)
(* Character classes and string helpers                                    *)
(***************************************************************************)
Digits == {"0", "1", "2", "3", "4", "5", "6", "7", "8", "9"}

DigitVal(c) ==
    CASE c = "0" -> 0 [] c = "1" -> 1 [] c = "2" -> 2 [] c = "3" -> 3
      [] c = "4" -> 4 [] c = "5" -> 5 [] c = "6" -> 6 [] c = "7" -> 7
      [] c = "8" -> 8 [] c = "9" -> 9

UpperSeq == <<"A", "B", "C", "D", "E", "F", "G", "H", "I", "J", "K", "L", "M",
              "N", "O", "P", "Q", "R", "S", "T", "U", "V", "W", "X", "Y", "Z">>
LowerSeq == <<"a", "b", "c", "d", "e", "f", "g", "h", "i", "j", "k", "l", "m",
              "n", "o", "p", "q", "r", "s", "t", "u", "v", "w", "x", "y", "z">>
UpperLetters == {UpperSeq[i] : i \in 1..26}
LowerLetters == {LowerSeq[i] : i \in 1..26}
Letters == UpperLetters \cup LowerLetters

LowerChar(c) ==
    IF c \in UpperLetters
    THEN LowerSeq[CHOOSE i \in 1..26 : UpperSeq[i] = c]
    ELSE c

(* str.lower() *)
Lower(s) == [i \in 1..Len(s) |-> LowerChar(s[i])]

(* sub in s, for strings *)
Contains(s, sub) ==
    \E i \in 0..(Len(s) - Len(sub)) :
        \A j \in 1..Len(sub) : s[i + j] = sub[j]

(* str.split() on blanks *)
RECURSIVE SplitFrom(_, _, _)
SplitFrom(s, i, cur) ==
    IF i > Len(s)
    THEN IF cur = <<>> THEN <<>> ELSE <<cur>>
    ELSE IF s[i] = " "
         THEN (IF cur = <<>> THEN <<>> ELSE <<cur>>) \o SplitFrom(s, i + 1, <<>>)
         ELSE SplitFrom(s, i + 1, Append(cur, s[i]))
Split(s) == SplitFrom(s, 1, <<>>)

Count(s, c) == Cardinality({i \in 1..Len(s) : s[i] = c})

RECURSIVE DigitsToNat(_)
DigitsToNat(s) ==
    IF s = <<>> THEN 0
    ELSE 10 * DigitsToNat(SubSeq(s, 1, Len(s) - 1)) + DigitVal(s[Len(s)])

RECURSIVE Pow10(_)
Pow10(k) == IF k = 0 THEN 1 ELSE 10 * Pow10(k - 1)

RECURSIVE NatToDigits(_)
NatToDigits(n) ==
    LET d == <<"0", "1", "2", "3", "4", "5", "6", "7", "8", "9">>[(n % 10) + 1]
    IN  IF n < 10 THEN <<d>> ELSE Append(NatToDigits(n \div 10), d)

(* digits of the fractional part rem/den, den dividing a power of ten *)
RECURSIVE FracDigits(_, _)
FracDigits(rem, den) ==
    IF rem = 0 THEN <<>>
    ELSE NatToDigits((rem * 10) \div den) \o FracDigits((rem * 10) % den, den)

(* f"{x}" for a float x: repr, shortest form with at least one decimal *)
FloatRepr(x) ==
    LET Shown(n, frac) ==
            (IF x[1] < 0 THEN <<"-">> ELSE <<>>)
            \o NatToDigits(n \div x[2]) \o <<".">>
            \o (IF frac = <<>> THEN <<"0">> ELSE frac)
    IN  Shown(Abs(x[1]), FracDigits(Abs(x[1]) % x[2], x[2]))

(* f"{x:.2f}" for 0 <= x: two decimals, ties to even *)
Fixed2(x) ==
    LET Shown(n) ==
            NatToDigits(n \div 100) \o <<".">> \o NatToDigits((n % 100) \div 10)
            \o NatToDigits(n % 10)
        Rounded(q, r) ==
            IF 2 * r > x[2] \/ (2 * r = x[2] /\ q % 2 = 1) THEN q + 1 ELSE q
    IN  Shown(Rounded((x[1] * 100) \div x[2], (x[1] * 100) % x[2]))

(***************************************************************************)
(* Configuration (src/src/config.py)                                       *)
(***************************************************************************)
MIN_FIELD_CONFIDENCE == Pct(50)

(* re.match(r'^\$?\d+\.?\d{0,2}$', s) *)
AmountPattern(s) ==
    LET Match(body, nd) ==
            /\ body # <<>>
            /\ body[1] \in Digits
            /\ \/ nd = {}
               \/ \E p \in nd :
                    /\ \A i \in 1..(p - 1) : body[i] \in Digits
                    /\ body[p] = "."
                    /\ Len(body) - p <= 2
                    /\ \A i \in (p + 1)..Len(body) : body[i] \in Digits
        NonDigits(body) == {i \in 1..Len(body) : body[i] \notin Digits}
        Rest(body) == Match(body, NonDigits(body))
    IN  Rest(IF s # <<>> /\ s[1] = "$" THEN Tail(s) ELSE s)

(* re.match(r'^\d{1,2}[/-]\d{1,2}[/-]\d{2,4}$', s) *)
DatePattern(s) ==
    \E i \in 2..3, j \in 4..6 :
        /\ j <= Len(s)
        /\ s[i] \in {"/", "-"} /\ s[j] \in {"/", "-"}
        /\ (j - i - 1) \in 1..2
        /\ (Len(s) - j) \in 2..4
        /\ \A k \in (1..Len(s)) \ {i, j} : s[k] \in Digits

(* re.match(r'^[a-zA-Z0-9._%+-]+@[a-zA-Z0-9.-]+\.[a-zA-Z]{2,}$', s) *)
EmailPattern(s) ==
    \E i \in 2..Len(s), j \in 4..Len(s) :
        /\ s[i] = "@" /\ s[j] = "." /\ i + 1 < j
        /\ \A k \in 1..(i - 1) : s[k] \in Letters \cup Digits \cup {".", "_", "%", "+", "-"}
        /\ \A k \in (i + 1)..(j - 1) : s[k] \in Letters \cup Digits \cup {".", "-"}
        /\ Len(s) - j >= 2
        /\ \A k \in (j + 1)..Len(s) : s[k] \in Letters

(* re.match(r'^\+?[\d\s\-()]{10,}$', s) *)
PhonePattern(s) ==
    LET Match(body) ==
            /\ Len(body) >= 10
            /\ \A k \in 1..Len(body) : body[k] \in Digits \cup {" ", "-", "(", ")"}
    IN  Match(IF s # <<>> /\ s[1] = "+" THEN Tail(s) ELSE s)

(***************************************************************************)
(* Rule-engine values                                                      *)
(***************************************************************************)
(* A note: the fixed text of an f-string and the texts interpolated in it. *)
Note(lit, args) == [lit |-> lit, args |-> args]

None == "None"

(* Field-name keywords the code looks for *)
kw_email  == <<"e", "m", "a", "i", "l">>
kw_phone  == <<"p", "h", "o", "n", "e">>
kw_date   == <<"d", "a", "t", "e">>
kw_amount == <<"a", "m", "o", "u", "n", "t">>
kw_total  == <<"t", "o", "t", "a", "l">>
kw_price  == <<"p", "r", "i", "c", "e">>
kw_cost   == <<"c", "o", "s", "t">>
kw_charge == <<"c", "h", "a", "r", "g", "e">>

(* Field names of the extraction schemas *)
n_subtotal == <<"s", "u", "b", "t", "o", "t", "a", "l">>
n_tax      == <<"t", "a", "x">>
n_total    == kw_total
n_date     == kw_date
n_charges  == <<"c", "h", "a", "r", "g", "e", "s">>
n_insurance_paid == <<"i", "n", "s", "u", "r", "a", "n", "c", "e", "_", "p", "a", "i", "d">>
n_patient_responsibility ==
    <<"p", "a", "t", "i", "e", "n", "t", "_", "r", "e", "s", "p", "o", "n", "s",
      "i", "b", "i", "l", "i", "t", "y">>
n_patient_name    == <<"p", "a", "t", "i", "e", "n", "t", "_", "n", "a", "m", "e">>
n_medication_name == <<"m", "e", "d", "i", "c", "a", "t", "i", "o", "n", "_", "n", "a", "m", "e">>
n_prescriber_name == <<"p", "r", "e", "s", "c", "r", "i", "b", "e", "r", "_", "n", "a", "m", "e">>
n_refills         == <<"r", "e", "f", "i", "l", "l", "s">>
n_vendor_name     == <<"v", "e", "n", "d", "o", "r", "_", "n", "a", "m", "e">>
n_Date            == <<"D", "a", "t", "e">>

(***************************************************************************)
(* ValidationAgent (src/src/agents/validation_agent.py)                    *)
(***************************************************************************)
(* float(cleaned) accepts [-] digits [. digits] with at least one digit *)
FloatParses(c) ==
    LET Match(body) ==
            /\ Count(body, "-") = 0
            /\ Count(body, ".") <= 1
            /\ \E i \in 1..Len(body) : body[i] \in Digits
    IN  Match(IF c # <<>> /\ c[1] = "-" THEN Tail(c) ELSE c)

FloatValue(c) ==
    LET Scaled(neg, m, k) == Rat(IF neg THEN -m ELSE m, Pow10(k))
        Decimals(body, dot) == IF dot > Len(body) THEN 0 ELSE Len(body) - dot
        Dot(body) == IF Count(body, ".") = 0 THEN Len(body) + 1
                     ELSE CHOOSE i \in 1..Len(body) : body[i] = "."
        Value(neg, body) ==
            Scaled(neg, DigitsToNat(SelectSeq(body, LAMBDA ch : ch \in Digits)),
                   Decimals(body, Dot(body)))
    IN  Value(c # <<>> /\ c[1] = "-", IF c # <<>> /\ c[1] = "-" THEN Tail(c) ELSE c)

(* the result of _parse_amount: a float, or ValueError raised by float() *)
_parse_amount_NoStrip(amount_str) ==
    IF amount_str = <<>> THEN [ok |-> TRUE, val |-> Zero]
    ELSE IF /\ \A i \in 1..Len(amount_str) : amount_str[i] \in Digits \cup {".", "-"}
            /\ FloatParses(amount_str)
    THEN [ok |-> TRUE, val |-> FloatValue(amount_str)]
    ELSE [ok |-> FALSE, val |-> Zero]
_parse_amount(amount_str) ==
    LET Parsed(cleaned) ==
            IF amount_str = <<>> THEN [ok |-> TRUE, val |-> Zero]
            ELSE IF cleaned = <<>> THEN [ok |-> TRUE, val |-> Zero]
            ELSE IF FloatParses(cleaned) THEN [ok |-> TRUE, val |-> FloatValue(cleaned)]
            ELSE [ok |-> FALSE, val |-> Zero]
    IN  Parsed(SelectSeq(amount_str, LAMBDA ch : ch \in Digits \cup {".", "-"}))

(* any(keyword in field_name_lower for keyword in [...]) *)
AmountKeywords == {kw_amount, kw_total, kw_price, kw_cost, kw_charge}

(* one format rule of _validate_field: applies when the keyword is in the name *)
FormatRule_NoNote(applies, matches, tag, text) ==
    IF ~applies THEN [p |-> <<>>, f |-> <<>>, n |-> <<>>]
    ELSE IF matches THEN [p |-> <<tag>>, f |-> <<>>, n |-> <<>>]
    ELSE [p |-> <<>>, f |-> <<tag>>, n |-> <<>>]
FormatRule(applies, matches, tag, text) ==
    IF ~applies THEN [p |-> <<>>, f |-> <<>>, n |-> <<>>]
    ELSE IF matches THEN [p |-> <<tag>>, f |-> <<>>, n |-> <<>>]
    ELSE [p |-> <<>>, f |-> <<tag>>, n |-> <<Note(text, <<>>)>>]

(* the rules of _validate_field for a field that has a value *)
_validate_field_rules_StrictThreshold(field) ==
    LET Result(rules_passed, rules_failed, notes) ==
            [passed |-> Len(rules_failed) = 0,
             rules_passed |-> rules_passed,
             rules_failed |-> rules_failed,
             notes |-> IF notes # <<>> THEN notes ELSE <<Note("Valid", <<>>)>>]
        Collect(email, phone, date, amount, conf) ==
            Result(email.p \o phone.p \o date.p \o amount.p \o conf.p,
                   email.f \o phone.f \o date.f \o amount.f \o conf.f,
                   email.n \o phone.n \o date.n \o amount.n \o conf.n)
        Rules(nm) ==
            Collect(
                FormatRule(Contains(nm, kw_email), EmailPattern(field.value),
                           "email_format", "Invalid email format"),
                FormatRule(Contains(nm, kw_phone), PhonePattern(field.value),
                           "phone_format", "Invalid phone format"),
                FormatRule(Contains(nm, kw_date), DatePattern(field.value),
                           "date_format", "Invalid date format"),
                FormatRule(\E k \in AmountKeywords : Contains(nm, k),
                           AmountPattern(field.value),
                           "amount_format", "Invalid amount format"),
                IF RLt(MIN_FIELD_CONFIDENCE, field.confidence)
                THEN [p |-> <<"confidence_threshold">>, f |-> <<>>, n |-> <<>>]
                ELSE [p |-> <<>>, f |-> <<"confidence_threshold">>,
                      n |-> <<Note("Low confidence: ", <<Fixed2(field.confidence)>>)>>])
    IN  Rules(Lower(field.name))
_validate_field_rules(field) ==
    LET Result(rules_passed, rules_failed, notes) ==
            [passed |-> Len(rules_failed) = 0,
             rules_passed |-> rules_passed,
             rules_failed |-> rules_failed,
             notes |-> IF notes # <<>> THEN notes ELSE <<Note("Valid", <<>>)>>]
        Collect(email, phone, date, amount, conf) ==
            Result(email.p \o phone.p \o date.p \o amount.p \o conf.p,
                   email.f \o phone.f \o date.f \o amount.f \o conf.f,
                   email.n \o phone.n \o date.n \o amount.n \o conf.n)
        Rules(nm) ==
            Collect(
                FormatRule(Contains(nm, kw_email), EmailPattern(field.value),
                           "email_format", "Invalid email format"),
                FormatRule(Contains(nm, kw_phone), PhonePattern(field.value),
                           "phone_format", "Invalid phone format"),
                FormatRule(Contains(nm, kw_date), DatePattern(field.value),
                           "date_format", "Invalid date format"),
                FormatRule(\E k \in AmountKeywords : Contains(nm, k),
                           AmountPattern(field.value),
                           "amount_format", "Invalid amount format"),
                IF RLe(MIN_FIELD_CONFIDENCE, field.confidence)
                THEN [p |-> <<"confidence_threshold">>, f |-> <<>>, n |-> <<>>]
                ELSE [p |-> <<>>, f |-> <<"confidence_threshold">>,
                      n |-> <<Note("Low confidence: ", <<Fixed2(field.confidence)>>)>>])
    IN  Rules(Lower(field.name))

_validate_field_NoEmptyCheck(field) == _validate_field_rules(field)
_validate_field(field) ==
    IF field.value = <<>>
    THEN [passed |-> FALSE, rules_passed |-> <<>>,
          rules_failed |-> <<"empty_value">>,
          notes |-> <<Note("Field is empty", <<>>)>>]
    ELSE _validate_field_rules(field)

(* field_dict = {f.name: f.value for f in fields if f.value} *)
FieldDict_AllFields(fields) ==
    LET idx == 1..Len(fields)
        last(n) == CHOOSE i \in idx :
                     /\ fields[i].name = n
                     /\ \A j \in idx : fields[j].name = n => j <= i
    IN  [n \in {fields[i].name : i \in idx} |-> fields[last(n)].value]
FieldDict(fields) ==
    LET idx == {i \in 1..Len(fields) : fields[i].value # <<>>}
        last(n) == CHOOSE i \in idx :
                     /\ fields[i].name = n
                     /\ \A j \in idx : fields[j].name = n => j <= i
    IN  [n \in {fields[i].name : i \in idx} |-> fields[last(n)].value]

(* fields.get(key, default) *)
Get(d, key, default) == IF key \in DOMAIN d THEN d[key] ELSE default

(* abs(diff) < 0.01 *)
WithinTolerance_Dime(diff) == RLt(RAbs(diff), Pct(10))
WithinTolerance_NoAbs(diff) == RLt(diff, Pct(1))
WithinTolerance(diff) == RLt(RAbs(diff), Pct(1))

(* f'Total mismatch: {total} != {subtotal} + {tax}' *)
TotalMismatchNote_Expected(total, subtotal, tax) ==
    Note("Total mismatch: {total} != {expected_total}",
         <<FloatRepr(total), FloatRepr(RAdd(subtotal, tax))>>)
TotalMismatchNote(total, subtotal, tax) ==
    Note("Total mismatch: {total} != {subtotal} + {tax}",
         <<FloatRepr(total), FloatRepr(subtotal), FloatRepr(tax)>>)

_validate_invoice_totals_ParseFailureIsMismatch(fields) ==
    LET Check(subtotal, tax, total) ==
            IF ~(subtotal.ok /\ tax.ok /\ total.ok)
            THEN [passed |-> <<>>, failed |-> <<"totals_match">>,
                  notes |-> <<Note("Could not parse amounts for total validation",
                                   <<>>)>>]
            ELSE IF WithinTolerance(RSub(total.val, RAdd(subtotal.val, tax.val)))
            THEN [passed |-> <<"totals_match">>, failed |-> <<>>, notes |-> <<>>]
            ELSE [passed |-> <<>>, failed |-> <<"totals_match">>,
                  notes |-> <<TotalMismatchNote(total.val, subtotal.val, tax.val)>>]
    IN  Check(_parse_amount(Get(fields, n_subtotal, <<"0">>)),
              _parse_amount(Get(fields, n_tax, <<"0">>)),
              _parse_amount(Get(fields, n_total, <<"0">>)))
_validate_invoice_totals(fields) ==
    LET Check(subtotal, tax, total) ==
            IF ~(subtotal.ok /\ tax.ok /\ total.ok)
            THEN [passed |-> <<>>, failed |-> <<"totals_calculation">>,
                  notes |-> <<Note("Could not parse amounts for total validation",
                                   <<>>)>>]
            ELSE IF WithinTolerance(RSub(total.val, RAdd(subtotal.val, tax.val)))
            THEN [passed |-> <<"totals_match">>, failed |-> <<>>, notes |-> <<>>]
            ELSE [passed |-> <<>>, failed |-> <<"totals_match">>,
                  notes |-> <<TotalMismatchNote(total.val, subtotal.val, tax.val)>>]
    IN  Check(_parse_amount(Get(fields, n_subtotal, <<"0">>)),
              _parse_amount(Get(fields, n_tax, <<"0">>)),
              _parse_amount(Get(fields, n_total, <<"0">>)))

_validate_medical_bill_amounts(fields) ==
    LET Check(charges, insurance_paid, patient_responsibility) ==
            IF ~(charges.ok /\ insurance_paid.ok /\ patient_responsibility.ok)
            THEN [passed |-> <<>>, failed |-> <<"medical_amounts_calculation">>,
                  notes |-> <<Note("Could not parse medical amounts", <<>>)>>]
            ELSE IF WithinTolerance(
                        RSub(charges.val,
                             RAdd(insurance_paid.val, patient_responsibility.val)))
            THEN [passed |-> <<"medical_amounts_match">>, failed |-> <<>>,
                  notes |-> <<>>]
            ELSE [passed |-> <<>>, failed |-> <<"medical_amounts_match">>,
                  notes |-> <<Note("Medical bill amounts do not balance", <<>>)>>]
    IN  Check(_parse_amount(Get(fields, n_charges, <<"0">>)),
              _parse_amount(Get(fields, n_insurance_paid, <<"0">>)),
              _parse_amount(Get(fields, n_patient_responsibility, <<"0">>)))

(* str.isdigit() *)
IsDigit(s) == s # <<>> /\ \A i \in 1..Len(s) : s[i] \in Digits

(* f'Missing required fields: {", ".join(missing_fields)}' *)
MissingFieldsNote_AllRequired(required_fields, missing_fields) ==
    Note("Missing required fields: ", required_fields)
MissingFieldsNote(required_fields, missing_fields) ==
    Note("Missing required fields: ", missing_fields)

_validate_prescription_fields_RefillsIfComplete(fields) ==
    LET required_fields == <<n_patient_name, n_medication_name, n_prescriber_name>>
        Required(missing_fields) ==
            IF missing_fields = <<>>
            THEN [passed |-> <<"prescription_required_fields">>, failed |-> <<>>,
                  notes |-> <<>>]
            ELSE [passed |-> <<>>, failed |-> <<"prescription_required_fields">>,
                  notes |-> <<MissingFieldsNote(required_fields, missing_fields)>>]
        Refills(refills) ==
            IF refills # <<>> /\ IsDigit(refills)
            THEN [passed |-> <<"refills_numeric">>, failed |-> <<>>, notes |-> <<>>]
            ELSE IF refills # <<>>
            THEN [passed |-> <<>>, failed |-> <<"refills_numeric">>,
                  notes |-> <<Note("Refills should be numeric", <<>>)>>]
            ELSE [passed |-> <<>>, failed |-> <<>>, notes |-> <<>>]
        Both(req, ref) ==
            [passed |-> req.passed \o ref.passed, failed |-> req.failed \o ref.failed,
             notes |-> req.notes \o ref.notes]
        Checked(req) ==
            Both(req, Refills(IF req.failed = <<>> THEN Get(fields, n_refills, <<>>)
                              ELSE <<>>))
    IN  Checked(Required(SelectSeq(required_fields,
                                   LAMBDA f : Get(fields, f, <<>>) = <<>>)))
_validate_prescription_fields(fields) ==
    LET required_fields == <<n_patient_name, n_medication_name, n_prescriber_name>>
        Required(missing_fields) ==
            IF missing_fields = <<>>
            THEN [passed |-> <<"prescription_required_fields">>, failed |-> <<>>,
                  notes |-> <<>>]
            ELSE [passed |-> <<>>, failed |-> <<"prescription_required_fields">>,
                  notes |-> <<MissingFieldsNote(required_fields, missing_fields)>>]
        Refills(refills) ==
            IF refills # <<>> /\ IsDigit(refills)
            THEN [passed |-> <<"refills_numeric">>, failed |-> <<>>, notes |-> <<>>]
            ELSE IF refills # <<>>
            THEN [passed |-> <<>>, failed |-> <<"refills_numeric">>,
                  notes |-> <<Note("Refills should be numeric", <<>>)>>]
            ELSE [passed |-> <<>>, failed |-> <<>>, notes |-> <<>>]
        Both(req, ref) ==
            [passed |-> req.passed \o ref.passed, failed |-> req.failed \o ref.failed,
             notes |-> req.notes \o ref.notes]
    IN  Both(Required(SelectSeq(required_fields,
                                LAMBDA f : Get(fields, f, <<>>) = <<>>)),
             Refills(Get(fields, n_refills, <<>>)))

_validate_date_consistency(fields) ==
    LET date_fields == {k \in DOMAIN fields : Contains(Lower(k), kw_date)}
    IN  IF date_fields # {}
        THEN [passed |-> <<"date_fields_present">>, failed |-> <<>>, notes |-> <<>>]
        ELSE [passed |-> <<>>, failed |-> <<>>,
              notes |-> <<Note("No date fields found", <<>>)>>]

_perform_cross_validation(fields, doc_type) ==
    LET none == [passed |-> <<>>, failed |-> <<>>, notes |-> <<>>]
        Both(typed, general) ==
            [passed |-> typed.passed \o general.passed,
             failed |-> typed.failed \o general.failed,
             notes  |-> typed.notes \o general.notes]
        Run(field_dict) ==
            Both(IF doc_type = "invoice" THEN _validate_invoice_totals(field_dict)
                 ELSE IF doc_type = "medical_bill"
                 THEN _validate_medical_bill_amounts(field_dict)
                 ELSE IF doc_type = "prescription"
                 THEN _validate_prescription_fields(field_dict)
                 ELSE none,
                 _validate_date_consistency(field_dict))
    IN  Run(FieldDict(fields))

Range(s) == {s[i] : i \in 1..Len(s)}

RECURSIVE Flatten(_)
Flatten(ss) == IF ss = <<>> THEN <<>> ELSE ss[1] \o Flatten(Tail(ss))

QualityAssurance(passed_rules, failed_rules, notes, cross_validation_score) ==
    [passed_rules |-> passed_rules, failed_rules |-> failed_rules,
     notes |-> notes, cross_validation_score |-> cross_validation_score]

(* len(passed_rules) / total_validations if total_validations > 0 else 0.0 *)
CrossValidationScore_PerFailure(passed_rules, failed_rules) ==
    IF Len(failed_rules) > 0 THEN Rat(Len(passed_rules), Len(failed_rules))
    ELSE Rat(Len(passed_rules), 1)
CrossValidationScore_DistinctNames(passed_rules, failed_rules) ==
    IF Range(passed_rules) \cup Range(failed_rules) = {} THEN Zero
    ELSE Rat(Cardinality(Range(passed_rules)),
             Cardinality(Range(passed_rules)) + Cardinality(Range(failed_rules)))
CrossValidationScore(passed_rules, failed_rules) ==
    LET total_validations == Len(passed_rules) + Len(failed_rules)
    IN  IF total_validations > 0 THEN Rat(Len(passed_rules), total_validations)
        ELSE Zero

(* returns the fields as mutated by the loop, and the QualityAssurance *)
validate_extraction_EveryTag(fields, doc_type) ==
    LET Summary(notes) == IF notes # <<>> THEN notes
                          ELSE <<Note("All validations passed", <<>>)>>
        LowConfidence(low_confidence_fields) ==
            IF low_confidence_fields # <<>>
            THEN <<Note("{n} low-confidence fields: ",
                        [i \in 1..Len(low_confidence_fields) |->
                           low_confidence_fields[i].name])>>
            ELSE <<>>
        Result(fv, passed_rules, failed_rules, notes) ==
            [fields |-> [i \in 1..Len(fields) |->
                           [fields[i] EXCEPT !.validation_passed = fv[i].passed,
                                             !.validation_notes = fv[i].notes]],
             field_validation |-> fv,
             qa |-> QualityAssurance(Range(passed_rules), Range(failed_rules),
                                     Summary(notes),
                                     CrossValidationScore(passed_rules, failed_rules))]
        Collect(fv, cross) ==
            Result(fv,
                   Flatten([i \in 1..Len(fields) |-> fv[i].rules_passed])
                   \o cross.passed,
                   Flatten([i \in 1..Len(fields) |-> fv[i].rules_failed])
                   \o cross.failed,
                   cross.notes \o
                   LowConfidence(SelectSeq(fields,
                       LAMBDA f : RLt(f.confidence, MIN_FIELD_CONFIDENCE))))
    IN  Collect([i \in 1..Len(fields) |-> _validate_field(fields[i])],
                _perform_cross_validation(fields, doc_type))
validate_extraction(fields, doc_type) ==
    LET Summary(notes) == IF notes # <<>> THEN notes
                          ELSE <<Note("All validations passed", <<>>)>>
        LowConfidence(low_confidence_fields) ==
            IF low_confidence_fields # <<>>
            THEN <<Note("{n} low-confidence fields: ",
                        [i \in 1..Len(low_confidence_fields) |->
                           low_confidence_fields[i].name])>>
            ELSE <<>>
        Result(fv, passed_rules, failed_rules, notes) ==
            [fields |-> [i \in 1..Len(fields) |->
                           [fields[i] EXCEPT !.validation_passed = fv[i].passed,
                                             !.validation_notes = fv[i].notes]],
             field_validation |-> fv,
             qa |-> QualityAssurance(Range(passed_rules), Range(failed_rules),
                                     Summary(notes),
                                     CrossValidationScore(passed_rules, failed_rules))]
        Collect(fv, cross) ==
            Result(fv,
                   Flatten([i \in 1..Len(fields) |->
                              IF fv[i].passed THEN fv[i].rules_passed ELSE <<>>])
                   \o cross.passed,
                   Flatten([i \in 1..Len(fields) |->
                              IF fv[i].passed THEN <<>> ELSE fv[i].rules_failed])
                   \o cross.failed,
                   cross.notes \o
                   LowConfidence(SelectSeq(fields,
                       LAMBDA f : RLt(f.confidence, MIN_FIELD_CONFIDENCE))))
    IN  Collect([i \in 1..Len(fields) |-> _validate_field(fields[i])],
                _perform_cross_validation(fields, doc_type))

(***************************************************************************)
(* Values returned by the external collaborators                           *)
(***************************************************************************)
(* a JSON number, a value that is no number (string, null), or no value *)
Num(v)  == [kind |-> "num", v |-> v]
NotNum  == [kind |-> "text", v |-> Zero]
Absent  == [kind |-> "absent", v |-> Zero]

(***************************************************************************)
(* OCRProcessor (src/src/agents/ocr_processor.py)                          *)
(***************************************************************************)
(* tess: [raises, words] with words a sequence of [text, conf] as reported *)
(* by pytesseract.image_to_data, conf an integer                           *)
extract_text_with_boxes(tess) ==
    LET Result(kept, word_boxes) ==
            [full_text |-> [i \in 1..Len(kept) |-> kept[i].text],
             word_boxes |-> word_boxes,
             average_confidence |->
                IF word_boxes # <<>>
                THEN RDivInt(RSum([i \in 1..Len(word_boxes) |->
                                     word_boxes[i].confidence]), Len(word_boxes))
                ELSE Zero]
        Boxes(kept) ==
            Result(kept, [i \in 1..Len(kept) |->
                            [text |-> kept[i].text, confidence |-> Pct(kept[i].conf)]])
    IN  IF tess.raises
        THEN [full_text |-> <<>>, word_boxes |-> <<>>, average_confidence |-> Zero]
        ELSE Boxes(SelectSeq(tess.words, LAMBDA w : w.text # <<>> /\ w.conf > 30))

(***************************************************************************)
(* DocumentRouter (src/src/agents/document_router.py)                      *)
(***************************************************************************)
(* llm: [kind, document_type, confidence]; kind "raise" is an exception of *)
(* the model call, "unparsable" a payload json.loads or the key lookups    *)
(* reject                                                                  *)
detect_document_type_FallbackUnknown(llm) ==
    IF llm.kind = "ok"
    THEN [doc_type |-> llm.document_type, confidence |-> llm.confidence,
          metadata |-> "reasoning"]
    ELSE [doc_type |-> "unknown", confidence |-> Num(Zero), metadata |-> "error"]
detect_document_type(llm) ==
    IF llm.kind = "ok"
    THEN [doc_type |-> llm.document_type, confidence |-> llm.confidence,
          metadata |-> "reasoning"]
    ELSE [doc_type |-> "invoice", confidence |-> Num(Pct(30)), metadata |-> "error"]

(* schemas.get(doc_type, schemas["invoice"]); a schema is named by its   *)
(* key, its content only enters the prompt                                *)
get_extraction_schema(doc_type) ==
    IF doc_type \in {"invoice", "medical_bill", "prescription"} THEN doc_type
    ELSE "invoice"

(***************************************************************************)
(* ExtractionAgent (src/src/agents/extraction_agent.py)                    *)
(***************************************************************************)
_get_ocr_confidence_for_text(text, ocr_data) ==
    LET Mean(matching) ==
            IF matching # <<>>
            THEN RDivInt(RSum([i \in 1..Len(matching) |-> matching[i].confidence]),
                         Len(matching))
            ELSE Pct(50)
        Matching(text_words) ==
            Mean(SelectSeq(ocr_data.word_boxes,
                           LAMBDA box : \E i \in 1..Len(text_words) :
                                           Contains(Lower(box.text), text_words[i])))
    IN  IF text = <<>> \/ ocr_data.word_boxes = <<>> THEN Pct(50)
        ELSE Matching(Split(Lower(text)))

(* re.match(r'\d{1,2}[/-]\d{1,2}[/-]\d{2,4}', value): a prefix match *)
DatePrefixPattern(s) ==
    \E n \in 1..Len(s) : DatePattern(SubSeq(s, 1, n))

(* settings.validation_rules, in the order the dict lists them *)
VALIDATION_RULES ==
    <<[key |-> kw_email, rule |-> "email"], [key |-> kw_phone, rule |-> "phone"],
      [key |-> kw_date, rule |-> "date"], [key |-> kw_amount, rule |-> "amount"]>>

RuleMatches(rule, value) ==
    CASE rule = "email"  -> EmailPattern(value)
      [] rule = "phone"  -> PhonePattern(value)
      [] rule = "date"   -> DatePattern(value)
      [] rule = "amount" -> AmountPattern(value)

_validate_field_format_FallThrough(field_name, value) ==
    LET Rated(nm, hits) ==
            IF value = <<>> THEN Pct(0)
            ELSE IF \E i \in hits : RuleMatches(VALIDATION_RULES[i].rule, value)
            THEN Pct(90)
            ELSE IF Contains(nm, kw_amount) \/ Contains(nm, kw_total)
            THEN (IF AmountPattern(value) THEN Pct(80) ELSE Pct(40))
            ELSE IF Contains(nm, kw_date)
            THEN (IF DatePrefixPattern(value) THEN Pct(80) ELSE Pct(40))
            ELSE Pct(60)
        Named(nm) ==
            Rated(nm, {i \in 1..Len(VALIDATION_RULES) :
                          Contains(nm, VALIDATION_RULES[i].key)})
    IN  Named(Lower(field_name))
_validate_field_format(field_name, value) ==
    LET First(hits) == CHOOSE i \in hits : \A j \in hits : i <= j
        Rated(nm, hits) ==
            IF value = <<>> THEN Pct(0)
            ELSE IF hits # {}
            THEN (IF RuleMatches(VALIDATION_RULES[First(hits)].rule, value)
                  THEN Pct(90) ELSE Pct(30))
            ELSE IF Contains(nm, kw_amount) \/ Contains(nm, kw_total)
            THEN (IF AmountPattern(value) THEN Pct(80) ELSE Pct(40))
            ELSE IF Contains(nm, kw_date)
            THEN (IF DatePrefixPattern(value) THEN Pct(80) ELSE Pct(40))
            ELSE Pct(60)
        Named(nm) ==
            Rated(nm, {i \in 1..Len(VALIDATION_RULES) :
                          Contains(nm, VALIDATION_RULES[i].key)})
    IN  Named(Lower(field_name))

n_invoice_number == <<"i", "n", "v", "o", "i", "c", "e", "_", "n", "u", "m", "b", "e", "r">>
n_customer_name  == <<"c", "u", "s", "t", "o", "m", "e", "r", "_", "n", "a", "m", "e">>
n_provider_name  == <<"p", "r", "o", "v", "i", "d", "e", "r", "_", "n", "a", "m", "e">>
n_date_of_service ==
    <<"d", "a", "t", "e", "_", "o", "f", "_", "s", "e", "r", "v", "i", "c", "e">>
n_dosage         == <<"d", "o", "s", "a", "g", "e">>

_get_field_relevance(field_name, doc_type) ==
    LET relevant_fields ==
          IF doc_type = "invoice"
          THEN {n_invoice_number, n_vendor_name, n_total, n_date, n_customer_name}
          ELSE IF doc_type = "medical_bill"
          THEN {n_patient_name, n_provider_name, n_charges, n_date_of_service}
          ELSE IF doc_type = "prescription"
          THEN {n_patient_name, n_medication_name, n_prescriber_name, n_dosage}
          ELSE {}
    IN  IF field_name \in relevant_fields THEN Pct(90) ELSE Pct(70)

(* field_data: [name, value, extraction_confidence].  The float returned, *)
(* or the TypeError of arithmetic on a confidence that is no number       *)
_calculate_field_confidence_DefaultOne(field_data, ocr_data, doc_type) ==
    LET Weighted(base_confidence, ocr_confidence, validation_confidence,
                 relevance_confidence) ==
            RAdd(RAdd(RMul(base_confidence, Pct(40)), RMul(ocr_confidence, Pct(30))),
                 RAdd(RMul(validation_confidence, Pct(20)),
                      RMul(relevance_confidence, Pct(10))))
    IN  IF field_data.extraction_confidence.kind = "text"
        THEN [kind |-> "raise", v |-> Zero]
        ELSE Num(Clamp01(Weighted(
                 IF field_data.extraction_confidence.kind = "absent" THEN One
                 ELSE field_data.extraction_confidence.v,
                 _get_ocr_confidence_for_text(field_data.value, ocr_data),
                 _validate_field_format(field_data.name, field_data.value),
                 _get_field_relevance(field_data.name, doc_type))))
_calculate_field_confidence(field_data, ocr_data, doc_type) ==
    LET Weighted(base_confidence, ocr_confidence, validation_confidence,
                 relevance_confidence) ==
            RAdd(RAdd(RMul(base_confidence, Pct(40)), RMul(ocr_confidence, Pct(30))),
                 RAdd(RMul(validation_confidence, Pct(20)),
                      RMul(relevance_confidence, Pct(10))))
    IN  IF field_data.extraction_confidence.kind = "text"
        THEN [kind |-> "raise", v |-> Zero]
        ELSE Num(Clamp01(Weighted(
                 IF field_data.extraction_confidence.kind = "absent" THEN Pct(50)
                 ELSE field_data.extraction_confidence.v,
                 _get_ocr_confidence_for_text(field_data.value, ocr_data),
                 _validate_field_format(field_data.name, field_data.value),
                 _get_field_relevance(field_data.name, doc_type))))

_find_field_source(value, ocr_data) ==
    LET Best(boxes, cand) ==
            CHOOSE i \in cand :
                \A j \in cand : \/ Len(boxes[j].text) < Len(boxes[i].text)
                                \/ (Len(boxes[j].text) = Len(boxes[i].text) /\ i <= j)
        Source(boxes, cand) ==
            IF value = <<>> \/ boxes = <<>> \/ cand = {} THEN None
            ELSE [page |-> 1, ocr_confidence |-> boxes[Best(boxes, cand)].confidence]
        Search(boxes) ==
            Source(boxes, {i \in 1..Len(boxes) :
                              \/ Contains(Lower(boxes[i].text), Lower(value))
                              \/ Contains(Lower(value), Lower(boxes[i].text))})
    IN  Search(ocr_data.word_boxes)

ExtractedField(name, value, confidence, source) ==
    [name |-> name, value |-> value, confidence |-> confidence, source |-> source,
     validation_passed |-> TRUE, validation_notes |-> <<>>]

(* confidence: float = Field(ge=0.0, le=1.0) *)
ExtractedFieldValid(conf) == conf.kind = "num" /\ InUnit(conf.v)

(* except Exception: return [], whatever the loop had built *)
ExtractionFailure_Partial(fields) == fields
ExtractionFailure(fields) == <<>>

(* llm: [kind, fields]; fields is the payload's "fields" mapping as a     *)
(* sequence of [name, value, extraction_confidence].  Any exception in    *)
(* the try block (model call, json.loads, arithmetic on a confidence that *)
(* is no number, a confidence pydantic rejects) is logged and returns []. *)
extract_structured_data(llm, ocr_data, doc_type) ==
    LET Result(bad, fields) ==
            IF llm.kind # "ok" \/ bad # {}
            THEN [failed |-> TRUE, fields |-> ExtractionFailure(fields)]
            ELSE [failed |-> FALSE, fields |-> fields]
        Built(found, conf, bad, n) ==
            Result(bad,
                   [i \in 1..n |->
                      ExtractedField(found[i].name, found[i].value, conf[i].v,
                                     _find_field_source(found[i].value, ocr_data))])
        Counted(found, conf, bad) ==
            Built(found, conf, bad,
                  IF llm.kind # "ok" THEN 0
                  ELSE IF bad = {} THEN Len(found)
                  ELSE (CHOOSE i \in bad : \A j \in bad : i <= j) - 1)
        Checked(found, conf) ==
            Counted(found, conf,
                    {i \in 1..Len(found) : ~ExtractedFieldValid(conf[i])})
        Scored(found) ==
            Checked(found,
                    [i \in 1..Len(found) |->
                       _calculate_field_confidence(found[i], ocr_data, doc_type)])
    IN  Scored(SelectSeq(llm.fields, LAMBDA fd : fd.value # <<>>))

(***************************************************************************)
(* DocumentProcessor (src/src/core/document_processor.py)                  *)
(***************************************************************************)
(* filename.lower().endswith('.pdf') *)
IsPdf(filename) == filename \in {"doc.pdf", "DOC.PDF"}

(* decoder: [raises, pages]; the list of page images is modelled by its   *)
(* length.  Any exception, also images[0] on an empty list, returns [].   *)
_prepare_images(decoder, filename) ==
    IF decoder.raises THEN 0
    ELSE IF IsPdf(filename) THEN decoder.pages
    ELSE 1

(* the weighted combination and the clamp; a type confidence that is no  *)
(* number raises TypeError                                                *)
WeightedOverall_Uncapped(avg_field_confidence, count, type_confidence, ocr_data, qa_results) ==
    LET completeness == Rat(count, 8)
        overall ==
            RAdd(RAdd(RAdd(RMul(avg_field_confidence, Pct(35)),
                           RMul(type_confidence.v, Pct(20))),
                      RAdd(RMul(ocr_data.average_confidence, Pct(20)),
                           RMul(qa_results.cross_validation_score, Pct(15)))),
                 RMul(completeness, Pct(10)))
    IN  IF type_confidence.kind # "num" THEN [kind |-> "raise", v |-> Zero]
        ELSE Num(Clamp01(overall))
WeightedOverall(avg_field_confidence, count, type_confidence, ocr_data, qa_results) ==
    LET completeness == RMin(Rat(count, 8), One)
        overall ==
            RAdd(RAdd(RAdd(RMul(avg_field_confidence, Pct(35)),
                           RMul(type_confidence.v, Pct(20))),
                      RAdd(RMul(ocr_data.average_confidence, Pct(20)),
                           RMul(qa_results.cross_validation_score, Pct(15)))),
                 RMul(completeness, Pct(10)))
    IN  IF type_confidence.kind # "num" THEN [kind |-> "raise", v |-> Zero]
        ELSE Num(Clamp01(overall))

(* the float the scorer returns, or the TypeError it raises *)
_calculate_overall_confidence_NoEarlyReturn(fields, type_confidence, ocr, qa) ==
    WeightedOverall(IF fields = <<>> THEN Zero
                    ELSE RDivInt(RSum([i \in 1..Len(fields) |-> fields[i].confidence]),
                                 Len(fields)),
                    Len(fields), type_confidence, ocr, qa)
_calculate_overall_confidence(fields, type_confidence, ocr, qa) ==
    IF fields = <<>> THEN Num(Zero)
    ELSE WeightedOverall(RDivInt(RSum([i \in 1..Len(fields) |-> fields[i].confidence]),
                                 Len(fields)),
                         Len(fields), type_confidence, ocr, qa)

(* doc_type: Literal["invoice", "medical_bill", "prescription"] *)
DocTypeLiteral == {"invoice", "medical_bill", "prescription"}

(* pydantic accepts DocumentExtraction(doc_type=..., overall_confidence=...) *)
DocumentExtractionValid_AnyStr(dt, conf) ==
    /\ conf.kind = "num"
    /\ InUnit(conf.v)
DocumentExtractionValid(dt, conf) ==
    /\ dt \in DocTypeLiteral
    /\ conf.kind = "num"
    /\ InUnit(conf.v)

DocumentExtraction(dt, fields, conf, qa, metadata) ==
    [doc_type |-> dt, fields |-> fields, overall_confidence |-> conf, qa |-> qa,
     metadata |-> metadata]

(* pc: the stage process_document is at; filename .. overall_confidence:  *)
(* its locals; result, outcome: what the call gave its caller;            *)
(* field_validation: the dicts _validate_field returned, in field order;  *)
(* calls: the stages invoked so far; handled: the message of the          *)
(* exception the top-level handler caught; log: the logger.error records; *)
(* args, ret: the arguments and the returned value of a helper that is    *)
(* called on its own                                                      *)
VARIABLES pc, filename, images, doc_type, type_confidence, ocr_data, schema,
          extracted_fields, qa_results, overall_confidence, result, outcome,
          field_validation, calls, handled, log, args, ret

vars == <<pc, filename, images, doc_type, type_confidence, ocr_data, schema,
          extracted_fields, qa_results, overall_confidence, result, outcome,
          field_validation, calls, handled, log, args, ret>>

Exc(type, msg) == [type |-> type, msg |-> msg]

(* except Exception as e: every exception the stages raise derives from it *)
ExceptionCaught_ValueErrorOnly(e) == e.type = "ValueError"
ExceptionCaught(e) == e.type \in {"ValueError", "TypeError", "ValidationError"}

(* the value the top-level handler returns *)
ErrorResult_KeepsPartial(e, fname) ==
    DocumentExtraction(doc_type, extracted_fields, Num(Zero),
        QualityAssurance(qa_results.passed_rules, {"processing_error"},
                         <<Note("Processing failed: ", <<e.msg>>)>>, Zero),
        [error |-> e.msg, filename |-> fname])
ErrorResult(e, fname) ==
    DocumentExtraction("invoice", <<>>, Num(Zero),
        QualityAssurance({}, {"processing_error"},
                         <<Note("Processing failed: ", <<e.msg>>)>>, Zero),
        [error |-> e.msg, filename |-> fname])

(***************************************************************************)
(* Bounds and input samples                                                *)
(***************************************************************************)
MaxPages == 2
MaxWords == 2
MaxPayload == 2

Filenames == {"doc.pdf", "scan.png"}

DetectLabels == DocTypeLiteral \cup {"receipt"}
TypeConfidences == {Num(Pct(95)), Num(Pct(150)), Num(Pct(-20)), NotNum}

TypeResponses ==
    {[kind |-> "raise", document_type |-> "", confidence |-> Absent],
     [kind |-> "unparsable", document_type |-> "", confidence |-> Absent]}
    \cup [kind : {"ok"}, document_type : DetectLabels, confidence : TypeConfidences]

v_88 == <<"8", "8", ".", "0", "0">>
v_90 == <<"9", "0", ".", "0", "0">>
v_80 == <<"8", "0", ".", "0", "0">>
v_8  == <<"8", ".", "0", "0">>
v_Acme == <<"A", "c", "m", "e">>

SampleWords ==
    {[text |-> v_88, conf |-> 96], [text |-> kw_total, conf |-> 20],
     [text |-> v_Acme, conf |-> 150]}

SeqsUpTo(S, n) == UNION {[1..k -> S] : k \in 0..n}

TessOutcomes ==
    {[raises |-> TRUE, words |-> <<>>]}
    \cup [raises : {FALSE}, words : SeqsUpTo(SampleWords, MaxWords)]

FieldData(name, value, conf) ==
    [name |-> name, value |-> value, extraction_confidence |-> conf]

SampleFieldData ==
    {FieldData(n_total, v_88, Num(Pct(95))),
     FieldData(n_total, v_90, Num(Pct(250))),
     FieldData(n_subtotal, v_80, Absent),
     FieldData(n_tax, v_8, Num(Pct(-300))),
     FieldData(n_vendor_name, v_Acme, NotNum),
     FieldData(n_date, <<>>, NotNum)}

(* a JSON object has each key once *)
Payloads ==
    {p \in SeqsUpTo(SampleFieldData, MaxPayload) :
        \A i, j \in 1..Len(p) : p[i].name = p[j].name => i = j}

FieldResponses ==
    {[kind |-> "raise", fields |-> <<>>], [kind |-> "unparsable", fields |-> <<>>]}
    \cup [kind : {"ok"}, fields : Payloads]

NoOcr == [full_text |-> <<>>, word_boxes |-> <<>>, average_confidence |-> Zero]
NoQA  == QualityAssurance({}, {}, <<>>, Zero)

(***************************************************************************)
(* process_document, one action per stage                                  *)
(***************************************************************************)
Init ==
    /\ pc = "start"
    /\ filename = ""
    /\ images = 0
    /\ doc_type = ""
    /\ type_confidence = Absent
    /\ ocr_data = NoOcr
    /\ schema = None
    /\ extracted_fields = <<>>
    /\ qa_results = NoQA
    /\ overall_confidence = Absent
    /\ result = None
    /\ outcome = "pending"
    /\ field_validation = <<>>
    /\ calls = <<>>
    /\ handled = None
    /\ log = <<>>
    /\ args = None
    /\ ret = None

(* an exception leaves the try block: the handler returns the error shape *)
Raise(e, logged) ==
    /\ pc' = "done"
    /\ IF ExceptionCaught(e)
       THEN /\ result' = ErrorResult(e, filename')
            /\ outcome' = "returned"
            /\ handled' = e.msg
            /\ log' = Append(logged, "Document processing failed")
       ELSE /\ result' = None
            /\ outcome' = "raised"
            /\ handled' = None
            /\ log' = logged

(* Step 1: _prepare_images, then "if not images: raise ValueError" *)
PrepareImages_NoCheck ==
    /\ pc = "start"
    /\ UNCHANGED <<args, ret>>
    /\ \E f \in Filenames, decoder \in [raises : BOOLEAN, pages : 0..MaxPages] :
         /\ filename' = f
         /\ images' = _prepare_images(decoder, f)
    /\ calls' = Append(calls, "decode")
    /\ log' = IF images' = 0 THEN Append(log, "Image preparation failed") ELSE log
    /\ pc' = "detect"
    /\ UNCHANGED <<result, outcome, handled>>
    /\ UNCHANGED <<doc_type, type_confidence, ocr_data, schema, extracted_fields,
                   qa_results, overall_confidence, field_validation>>
PrepareImages ==
    /\ pc = "start"
    /\ UNCHANGED <<args, ret>>
    /\ \E f \in Filenames, decoder \in [raises : BOOLEAN, pages : 0..MaxPages] :
         /\ filename' = f
         /\ images' = _prepare_images(decoder, f)
    /\ calls' = Append(calls, "decode")
    /\ LET logged == IF images' = 0 THEN Append(log, "Image preparation failed")
                     ELSE log
       IN  IF images' = 0
           THEN Raise(Exc("ValueError",
                          "Could not process file - no valid images found"), logged)
           ELSE pc' = "detect" /\ UNCHANGED <<result, outcome, handled, log>>
    /\ UNCHANGED <<doc_type, type_confidence, ocr_data, schema, extracted_fields,
                   qa_results, overall_confidence, field_validation>>

(* Step 2: router.detect_document_type *)
DetectType ==
    /\ pc = "detect"
    /\ UNCHANGED <<args, ret>>
    /\ \E llm \in TypeResponses :
         LET r == detect_document_type(llm)
         IN  /\ doc_type' = r.doc_type
             /\ type_confidence' = r.confidence
             /\ log' = IF llm.kind = "ok" THEN log
                       ELSE Append(log, "Error in document type detection")
    /\ calls' = Append(calls, "detect")
    /\ pc' = "ocr"
    /\ UNCHANGED <<filename, images, ocr_data, schema, extracted_fields, qa_results,
                   overall_confidence, result, outcome, handled, field_validation>>

(* Step 3: ocr_processor.extract_text_with_boxes *)
OCR_Propagates ==
    /\ pc = "ocr"
    /\ UNCHANGED <<args, ret>>
    /\ \E tess \in TessOutcomes :
         IF tess.raises
         THEN /\ ocr_data' = ocr_data
              /\ Raise(Exc("RuntimeError", "tesseract failed"),
                       Append(log, "OCR extraction failed"))
         ELSE /\ ocr_data' = extract_text_with_boxes(tess)
              /\ pc' = "schema"
              /\ UNCHANGED <<result, outcome, handled, log>>
    /\ calls' = Append(calls, "ocr")
    /\ UNCHANGED <<filename, images, doc_type, type_confidence, schema,
                   extracted_fields, qa_results, overall_confidence,
                   field_validation>>
OCR ==
    /\ pc = "ocr"
    /\ UNCHANGED <<args, ret>>
    /\ \E tess \in TessOutcomes :
         /\ ocr_data' = extract_text_with_boxes(tess)
         /\ log' = IF tess.raises THEN Append(log, "OCR extraction failed") ELSE log
    /\ calls' = Append(calls, "ocr")
    /\ pc' = "schema"
    /\ UNCHANGED <<filename, images, doc_type, type_confidence, schema,
                   extracted_fields, qa_results, overall_confidence, result, outcome,
                   handled, field_validation>>

(* Step 4: router.get_extraction_schema *)
SchemaLookup ==
    /\ pc = "schema"
    /\ UNCHANGED <<args, ret>>
    /\ schema' = get_extraction_schema(doc_type)
    /\ calls' = Append(calls, "schema")
    /\ pc' = "extract"
    /\ UNCHANGED <<filename, images, doc_type, type_confidence, ocr_data,
                   extracted_fields, qa_results, overall_confidence, result, outcome,
                   handled, field_validation, log>>

(* Step 5: extraction_agent.extract_structured_data *)
Extract_RetriesOnce ==
    /\ pc = "extract"
    /\ UNCHANGED <<args, ret>>
    /\ \E llm \in FieldResponses :
         LET Store(r) ==
                 /\ extracted_fields' = r.fields
                 /\ log' = IF r.failed THEN Append(log, "Extraction failed") ELSE log
                 /\ pc' = IF r.failed /\ "extract" \notin Range(calls)
                          THEN "extract" ELSE "validate"
         IN  Store(extract_structured_data(llm, ocr_data, doc_type))
    /\ calls' = Append(calls, "extract")
    /\ UNCHANGED <<filename, images, doc_type, type_confidence, ocr_data, schema,
                   qa_results, overall_confidence, result, outcome, handled,
                   field_validation>>
Extract ==
    /\ pc = "extract"
    /\ UNCHANGED <<args, ret>>
    /\ \E llm \in FieldResponses :
         LET Store(r) ==
                 /\ extracted_fields' = r.fields
                 /\ log' = IF r.failed THEN Append(log, "Extraction failed") ELSE log
         IN  Store(extract_structured_data(llm, ocr_data, doc_type))
    /\ calls' = Append(calls, "extract")
    /\ pc' = "validate"
    /\ UNCHANGED <<filename, images, doc_type, type_confidence, ocr_data, schema,
                   qa_results, overall_confidence, result, outcome, handled,
                   field_validation>>

(* Step 6: validation_agent.validate_extraction *)
Validate_KeepsPassedOnly ==
    /\ pc = "validate"
    /\ UNCHANGED <<args, ret>>
    /\ LET Store(v) ==
               /\ extracted_fields' = SelectSeq(v.fields, LAMBDA f : f.validation_passed)
               /\ field_validation' = v.field_validation
               /\ qa_results' = v.qa
       IN  Store(validate_extraction(extracted_fields, doc_type))
    /\ calls' = Append(calls, "validate")
    /\ pc' = "score"
    /\ UNCHANGED <<filename, images, doc_type, type_confidence, ocr_data, schema,
                   overall_confidence, result, outcome, handled, log>>
Validate ==
    /\ pc = "validate"
    /\ UNCHANGED <<args, ret>>
    /\ LET Store(v) ==
               /\ extracted_fields' = v.fields
               /\ field_validation' = v.field_validation
               /\ qa_results' = v.qa
       IN  Store(validate_extraction(extracted_fields, doc_type))
    /\ calls' = Append(calls, "validate")
    /\ pc' = "score"
    /\ UNCHANGED <<filename, images, doc_type, type_confidence, ocr_data, schema,
                   overall_confidence, result, outcome, handled, log>>

(* Step 7: _calculate_overall_confidence *)
Score ==
    /\ pc = "score"
    /\ UNCHANGED <<args, ret>>
    /\ calls' = Append(calls, "score")
    /\ UNCHANGED <<filename, images, doc_type, type_confidence, ocr_data, schema,
                   extracted_fields, qa_results, field_validation>>
    /\ LET Store(c) ==
               IF c.kind = "raise"
               THEN /\ Raise(Exc("TypeError", "unsupported operand type(s) for *"), log)
                    /\ UNCHANGED overall_confidence
               ELSE /\ overall_confidence' = c
                    /\ pc' = "package"
                    /\ UNCHANGED <<result, outcome, handled, log>>
       IN  Store(_calculate_overall_confidence(extracted_fields, type_confidence,
                                               ocr_data, qa_results))

(* "Create final result": the DocumentExtraction constructor validates *)
Package ==
    /\ pc = "package"
    /\ UNCHANGED <<args, ret>>
    /\ calls' = Append(calls, "package")
    /\ UNCHANGED <<filename, images, doc_type, type_confidence, ocr_data, schema,
                   extracted_fields, qa_results, overall_confidence, field_validation>>
    /\ IF DocumentExtractionValid(doc_type, overall_confidence)
       THEN /\ result' = DocumentExtraction(doc_type, extracted_fields,
                            overall_confidence, qa_results,
                            [filename |-> filename, type_detection |-> doc_type,
                             ocr_confidence |-> ocr_data.average_confidence,
                             num_pages |-> images])
            /\ outcome' = "returned"
            /\ pc' = "done"
            /\ UNCHANGED <<handled, log>>
       ELSE Raise(Exc("ValidationError", "validation error for DocumentExtraction"),
                  log)

Next ==
    \/ PrepareImages
    \/ DetectType
    \/ OCR
    \/ SchemaLookup
    \/ Extract
    \/ Validate
    \/ Score
    \/ Package

Spec == Init /\ [][Next]_vars

(***************************************************************************)
(* validate_extraction called on its own, on any field list               *)
(*                                                                         *)
(* Amounts are exact decimals.  The sampled amounts differ from the sum   *)
(* they are checked against by 0, 0.005, 0.02 or more: a difference of    *)
(* exactly 0.01 is decided in the code by the rounding of binary floats   *)
(* (100 against 60 + 40.01 passes, 88.01 against 80 + 8 fails), which     *)
(* exact decimals do not reproduce.                                       *)
(***************************************************************************)
MaxFields == 3

v_88005 == <<"8", "8", ".", "0", "0", "5">>
v_8802 == <<"8", "8", ".", "0", "2">>
v_100  == <<"1", "0", "0">>
v_60   == <<"6", "0">>
v_50   == <<"5", "0">>
v_40   == <<"4", "0">>
v_40005 == <<"4", "0", ".", "0", "0", "5">>
v_4002 == <<"4", "0", ".", "0", "2">>
v_bad  == <<"1", ".", "2", ".", "3">>
v_day  == <<"1", "/", "2", "/", "2", "4">>
v_2    == <<"2">>

F(name, value, conf) == ExtractedField(name, value, Pct(conf), None)

GeneralSample ==
    {F(n_date, v_day, 90), F(n_date, <<>>, 40), F(n_vendor_name, v_Acme, 40),
     F(n_Date, v_day, 90)}

InvoiceSample ==
    {F(n_subtotal, v_80, 90), F(n_tax, v_8, 90), F(n_tax, v_bad, 90),
     F(n_total, v_88, 90), F(n_total, v_90, 40), F(n_total, v_88005, 90),
     F(n_total, v_8802, 90), F(n_total, <<>>, 90)}

MedicalSample ==
    {F(n_charges, v_100, 90), F(n_charges, <<>>, 90),
     F(n_insurance_paid, v_60, 90), F(n_insurance_paid, v_50, 40),
     F(n_insurance_paid, v_bad, 90),
     F(n_patient_responsibility, v_40, 90), F(n_patient_responsibility, v_40005, 90),
     F(n_patient_responsibility, v_4002, 90)}

PrescriptionSample ==
    {F(n_patient_name, v_Acme, 90), F(n_patient_name, <<>>, 90),
     F(n_medication_name, v_Acme, 90), F(n_prescriber_name, v_Acme, 40),
     F(n_prescriber_name, <<>>, 90), F(n_refills, v_2, 90),
     F(n_refills, v_8, 90), F(n_refills, <<>>, 90)}

FieldSample(dt) ==
    GeneralSample \cup
    (IF dt = "invoice" THEN InvoiceSample
     ELSE IF dt = "medical_bill" THEN MedicalSample
     ELSE IF dt = "prescription" THEN PrescriptionSample
     ELSE {})

FieldLists(dt) ==
    {p \in SeqsUpTo(FieldSample(dt), MaxFields) :
        \A i, j \in 1..Len(p) : p[i].name = p[j].name => i = j}

InitValidate ==
    /\ pc = "validate"
    /\ doc_type \in DetectLabels
    /\ extracted_fields \in FieldLists(doc_type)
    /\ filename = ""
    /\ images = 0
    /\ type_confidence = Absent
    /\ ocr_data = NoOcr
    /\ schema = None
    /\ qa_results = NoQA
    /\ overall_confidence = Absent
    /\ result = None
    /\ outcome = "pending"
    /\ field_validation = <<>>
    /\ calls = <<>>
    /\ handled = None
    /\ log = <<>>
    /\ args = None
    /\ ret = None

NextValidate == Validate

SpecValidate == InitValidate /\ [][NextValidate]_vars

(***************************************************************************)
(* The helpers of the agents, each called on its own                       *)
(***************************************************************************)
MaxAmountLen == 3

AmountChars == {"$", ",", " ", "1", "5", ".", "-"}

v_1234_56  == <<"1", "2", "3", "4", ".", "5", "6">>
v_d1234_56 == <<"$", "1", ",", "2", "3", "4", ".", "5", "6">>

AmountStrings ==
    SeqsUpTo(AmountChars, MaxAmountLen) \cup {v_1234_56, v_d1234_56, v_bad, v_Acme}

(* the string with every character other than digits, "." and "-" removed *)
StripNonNumeric(s) == SelectSeq(s, LAMBDA ch : ch \in Digits \cup {".", "-"})

ParseAmountCalls == [fn : {"_parse_amount"}, amount_str : AmountStrings]

(* what extract_text_with_boxes can hand to the extraction agent *)
OcrResults == {extract_text_with_boxes(t) : t \in TessOutcomes}

FieldConfidenceCalls ==
    [fn : {"_calculate_field_confidence"}, field_data : SampleFieldData,
     ocr_data : OcrResults, doc_type : DetectLabels]

MaxCallFields == 9

(* n validated fields: the first of confidence first, the others of rest *)
FieldList(n, first, rest) ==
    [i \in 1..n |-> F(n_total, v_88, IF i = 1 THEN first ELSE rest)]

ScoredFieldLists ==
    {FieldList(n, first, rest) : n \in 1..MaxCallFields, first \in {0, 50, 100},
                                 rest \in {50, 100}}

(* QualityAssurance objects of cross_validation_score 0, 1/2, 4/5 and 1 *)
SampleQA ==
    {NoQA,
     QualityAssurance({"date_format"}, {"confidence_threshold"}, <<>>, Rat(1, 2)),
     QualityAssurance({"amount_format", "confidence_threshold"}, {"totals_match"},
                      <<>>, Rat(4, 5)),
     QualityAssurance({"amount_format"}, {}, <<>>, One)}

OverallConfidenceCalls ==
    [fn : {"_calculate_overall_confidence"}, fields : ScoredFieldLists,
     type_confidence : TypeConfidences, ocr_data : OcrResults, qa_results : SampleQA]

n_due_date     == <<"d", "u", "e", "_", "d", "a", "t", "e">>
n_total_amount == <<"t", "o", "t", "a", "l", "_", "a", "m", "o", "u", "n", "t">>
n_email_date   == <<"e", "m", "a", "i", "l", "_", "d", "a", "t", "e">>

v_mail    == <<"a", "@", "b", ".", "c", "o">>
v_phone   == <<"5", "5", "5", "-", "1", "2", "3", "-", "4", "5", "6", "7">>
v_d88     == <<"$", "8", "8", ".", "0", "0">>
v_day_at  == <<"1", "/", "2", "/", "2", "4", " ", "9", "h">>

FormatNames ==
    {n_date, n_Date, n_due_date, n_date_of_service, n_email_date, kw_email, kw_phone,
     kw_amount, n_total_amount, n_total, n_subtotal, n_vendor_name, n_tax}

FormatValues ==
    {<<>>, v_88, v_d88, v_bad, v_Acme, v_day, v_day_at, v_mail, v_phone}

FieldFormatCalls ==
    [fn : {"_validate_field_format"}, field_name : FormatNames, value : FormatValues]

n_Email      == <<"E", "m", "a", "i", "l">>
n_unit_price == <<"u", "n", "i", "t", "_", "p", "r", "i", "c", "e">>
n_cost       == kw_cost

ValidatorNames ==
    FormatNames \cup {n_Email, n_unit_price, n_cost, n_charges, n_refills}

(* confidences below, at and above settings.min_field_confidence *)
ValidatorConfidences == {40, 50, 90}

ValidateFieldCalls ==
    [fn : {"_validate_field"},
     field : {F(n, v, c) : n \in ValidatorNames, v \in FormatValues,
                           c \in ValidatorConfidences}]

CallInputs ==
    ParseAmountCalls \cup FieldConfidenceCalls \cup OverallConfidenceCalls
        \cup FieldFormatCalls \cup ValidateFieldCalls

InitCall ==
    /\ pc = "call"
    /\ args \in CallInputs
    /\ ret = None
    /\ doc_type = ""
    /\ extracted_fields = <<>>
    /\ filename = ""
    /\ images = 0
    /\ type_confidence = Absent
    /\ ocr_data = NoOcr
    /\ schema = None
    /\ qa_results = NoQA
    /\ overall_confidence = Absent
    /\ result = None
    /\ outcome = "pending"
    /\ field_validation = <<>>
    /\ calls = <<>>
    /\ handled = None
    /\ log = <<>>

(* _parse_amount on a string, and on the same string stripped beforehand *)
ParseAmount ==
    /\ pc = "call"
    /\ args.fn = "_parse_amount"
    /\ ret' = [parsed |-> _parse_amount(args.amount_str),
               stripped |-> _parse_amount(StripNonNumeric(args.amount_str))]
    /\ pc' = "returned"
    /\ UNCHANGED <<filename, images, doc_type, type_confidence, ocr_data, schema,
                   extracted_fields, qa_results, overall_confidence, result, outcome,
                   field_validation, calls, handled, log, args>>

CalculateFieldConfidence ==
    /\ pc = "call"
    /\ args.fn = "_calculate_field_confidence"
    /\ ret' = _calculate_field_confidence(args.field_data, args.ocr_data, args.doc_type)
    /\ pc' = "returned"
    /\ UNCHANGED <<filename, images, doc_type, type_confidence, ocr_data, schema,
                   extracted_fields, qa_results, overall_confidence, result, outcome,
                   field_validation, calls, handled, log, args>>

CalculateOverallConfidence ==
    /\ pc = "call"
    /\ args.fn = "_calculate_overall_confidence"
    /\ ret' = _calculate_overall_confidence(args.fields, args.type_confidence,
                                            args.ocr_data, args.qa_results)
    /\ pc' = "returned"
    /\ UNCHANGED <<filename, images, doc_type, type_confidence, ocr_data, schema,
                   extracted_fields, qa_results, overall_confidence, result, outcome,
                   field_validation, calls, handled, log, args>>

ValidateFieldFormat ==
    /\ pc = "call"
    /\ args.fn = "_validate_field_format"
    /\ ret' = _validate_field_format(args.field_name, args.value)
    /\ pc' = "returned"
    /\ UNCHANGED <<filename, images, doc_type, type_confidence, ocr_data, schema,
                   extracted_fields, qa_results, overall_confidence, result, outcome,
                   field_validation, calls, handled, log, args>>

ValidateField ==
    /\ pc = "call"
    /\ args.fn = "_validate_field"
    /\ ret' = _validate_field(args.field)
    /\ pc' = "returned"
    /\ UNCHANGED <<filename, images, doc_type, type_confidence, ocr_data, schema,
                   extracted_fields, qa_results, overall_confidence, result, outcome,
                   field_validation, calls, handled, log, args>>

NextCall ==
    \/ ParseAmount
    \/ CalculateFieldConfidence
    \/ CalculateOverallConfidence
    \/ ValidateFieldFormat
    \/ ValidateField

SpecCall == InitCall /\ [][NextCall]_vars

(***************************************************************************)
(* Properties of process_document (specification Spec)                     *)
(***************************************************************************)
Returned == pc = "done" /\ outcome = "returned"
ExtractionFailed == "Extraction failed" \in Range(log)
DetectedInEnum == doc_type \in DocTypeLiteral

(* C1: process_document always returns a DocumentExtraction; no exception *)
(* of any stage propagates to the caller.                                 *)
C1_NoExceptionPropagates ==
    /\ outcome # "raised"
    /\ pc = "done" =>
         /\ outcome = "returned"
         /\ DOMAIN result = {"doc_type", "fields", "overall_confidence", "qa",
                             "metadata"}

(* an exception of the scoring stage was caught and turned into a result *)
C1_Witness ==
    /\ Returned
    /\ handled = "unsupported operand type(s) for *"

(* C2: when an exception reaches the top-level handler the result is the  *)
(* processing_error shape: invoice, no fields, confidence 0.0, failed     *)
(* rule processing_error only, no passed rule, score 0.0, the message in  *)
(* the notes; nothing of the earlier stages is kept.                      *)
C2_ErrorShape ==
    handled # None =>
        /\ Returned
        /\ result.doc_type = "invoice"
        /\ result.fields = <<>>
        /\ result.overall_confidence = Num(Zero)
        /\ result.qa.failed_rules = {"processing_error"}
        /\ result.qa.passed_rules = {}
        /\ result.qa.cross_validation_score = Zero
        /\ Len(result.qa.notes) = 1
        /\ result.qa.notes[1].lit = "Processing failed: "
        /\ result.qa.notes[1].args = <<handled>>

(* the handler ran after fields of a medical bill had been extracted *)
C2_Witness ==
    /\ handled # None
    /\ extracted_fields # <<>>
    /\ doc_type = "medical_bill"
    /\ qa_results.passed_rules # {}

(* C3 as stated: a failing extraction stage gives the processing_error    *)
(* shape.                                                                 *)
C3_AsStated ==
    (Returned /\ ExtractionFailed) =>
        /\ result.doc_type = "invoice"
        /\ result.fields = <<>>
        /\ result.overall_confidence = Num(Zero)
        /\ result.qa.failed_rules = {"processing_error"}

(* C3 amended: a failing extraction is caught inside the extraction agent *)
(* and gives an empty field list; the result has no fields and            *)
(* confidence 0.0; for a detected type of the enum it is the success      *)
(* shape: the detected type and the validation of the empty field list    *)
(* (no processing_error); for any other detected type it is the           *)
(* processing_error shape.                                                *)
C3_ExtractionFailureContinues ==
    (Returned /\ ExtractionFailed) =>
        /\ result.fields = <<>>
        /\ result.overall_confidence = Num(Zero)
        /\ DetectedInEnum =>
             /\ handled = None
             /\ result.doc_type = doc_type
             /\ "processing_error" \notin result.qa.failed_rules
             /\ doc_type = "invoice" =>
                  /\ result.qa.passed_rules = {"totals_match"}
                  /\ result.qa.failed_rules = {}
             /\ doc_type = "medical_bill" =>
                  /\ result.qa.passed_rules = {"medical_amounts_match"}
                  /\ result.qa.failed_rules = {}
             /\ doc_type = "prescription" =>
                  /\ result.qa.passed_rules = {}
                  /\ result.qa.failed_rules = {"prescription_required_fields"}
        /\ ~DetectedInEnum =>
             /\ handled # None
             /\ result.doc_type = "invoice"
             /\ result.qa.failed_rules = {"processing_error"}

(* extraction failed on a medical bill and the call returned normally *)
C3_Witness ==
    /\ Returned
    /\ ExtractionFailed
    /\ handled = None
    /\ result.doc_type = "medical_bill"

(* C4: every confidence in a returned DocumentExtraction lies in [0,1].   *)
C4_ConfidencesInUnit ==
    Returned =>
        /\ \A i \in 1..Len(result.fields) : InUnit(result.fields[i].confidence)
        /\ result.overall_confidence.kind = "num"
        /\ InUnit(result.overall_confidence.v)
        /\ InUnit(result.qa.cross_validation_score)

(* a success with type confidence 1.5, OCR confidence above 1 and a field *)
(* whose reported confidence 2.5 was clamped to 1                         *)
C4_Witness ==
    /\ Returned
    /\ handled = None
    /\ type_confidence = Num(Pct(150))
    /\ RLt(One, ocr_data.average_confidence)
    /\ \E i \in 1..Len(result.fields) : result.fields[i].confidence = One
    /\ result.overall_confidence.v = One

(* C5: the doc_type of a returned DocumentExtraction is in the enum, also *)
(* when the detector answered another label.                              *)
C5_DocTypeInEnum ==
    Returned => result.doc_type \in DocTypeLiteral

(* the detector answered "receipt" and the call returned *)
C5_Witness ==
    /\ Returned
    /\ doc_type = "receipt"
    /\ extracted_fields # <<>>

(* C6: with no fields the overall scorer returns exactly 0.0, whatever    *)
(* the type confidence, the OCR confidence and the QA.                    *)
C6_ZeroWithoutFields ==
    (pc \in {"package", "done"} /\ "score" \in Range(calls) /\ extracted_fields = <<>>)
        => overall_confidence = Num(Zero)

(* scored with no fields, cross_validation_score 1.0, a type confidence   *)
(* that is no number and a positive OCR confidence                        *)
C6_Witness ==
    /\ pc = "package"
    /\ extracted_fields = <<>>
    /\ qa_results.cross_validation_score = One
    /\ type_confidence = NotNum
    /\ RLt(Zero, ocr_data.average_confidence)

DetectionFailed == "Error in document type detection" \in Range(log)

AllStages ==
    <<"decode", "detect", "ocr", "schema", "extract", "validate", "score", "package">>

(* C14: when the type-detection call raises or its payload does not       *)
(* parse, detect_document_type returns "invoice" with confidence 0.3, and *)
(* process_document runs OCR, schema lookup, extraction, validation,      *)
(* scoring and packaging and returns a result that is not the             *)
(* processing_error shape.                                                *)
C14_DetectionFallbackContinues ==
    DetectionFailed =>
        /\ doc_type = "invoice"
        /\ type_confidence = Num(Pct(30))
        /\ pc \in {"ocr", "schema", "extract", "validate", "score", "package", "done"}
        /\ pc = "done" =>
             /\ Returned
             /\ handled = None
             /\ calls = AllStages
             /\ result.doc_type = "invoice"
             /\ result.metadata.type_detection = "invoice"
             /\ "processing_error" \notin result.qa.failed_rules

(* detection failed, fields were extracted and the call returned them *)
C14_Witness ==
    /\ DetectionFailed
    /\ Returned
    /\ calls = AllStages
    /\ result.fields # <<>>
    /\ RLt(Zero, result.overall_confidence.v)

DecodeFailed == "Image preparation failed" \in Range(log)

(* C15: when decoding fails or yields no page image the pipeline aborts:  *)
(* no stage is invoked after the decode and process_document returns the  *)
(* processing_error shape.                                                *)
C15_DecodeFailureAborts ==
    /\ DecodeFailed <=> (pc # "start" /\ images = 0)
    /\ DecodeFailed =>
         /\ pc = "done"
         /\ calls = <<"decode">>
         /\ Returned
         /\ handled = "Could not process file - no valid images found"
         /\ result.doc_type = "invoice"
         /\ result.fields = <<>>
         /\ result.overall_confidence = Num(Zero)
         /\ result.qa.failed_rules = {"processing_error"}
         /\ doc_type = "" /\ ocr_data = NoOcr /\ extracted_fields = <<>>
         /\ qa_results = NoQA /\ overall_confidence = Absent

(* a PDF gave no page image: the call returned after the decode alone *)
C15_Witness ==
    /\ DecodeFailed
    /\ IsPdf(filename)
    /\ Returned
    /\ calls = <<"decode">>
    /\ result.qa.failed_rules = {"processing_error"}

(* the value of pc while the stage of that position is the next to run *)
StagePc ==
    <<"start", "detect", "ocr", "schema", "extract", "validate", "score", "package">>

(* C17: the stages of one process_document call run in the order decode,  *)
(* detect-type, OCR, schema-lookup, extract, validate, score, package;    *)
(* every step invokes the one stage that follows those already invoked,   *)
(* so none runs twice and none is skipped or resumed; after a stage the   *)
(* call is at the next stage or has ended.                                *)
C17_StrictStageOrder ==
    [][/\ Len(calls) < Len(AllStages)
       /\ calls = SubSeq(AllStages, 1, Len(calls))
       /\ pc = StagePc[Len(calls) + 1]
       /\ calls' = Append(calls, AllStages[Len(calls) + 1])
       /\ \/ pc' = "done"
          \/ /\ Len(calls') < Len(AllStages)
             /\ pc' = StagePc[Len(calls') + 1]]_vars

(* a call ran all eight stages in order and returned *)
C17_Witness ==
    /\ Returned
    /\ handled = None
    /\ calls = AllStages
    /\ "Extraction failed" \in Range(log)
    /\ "OCR extraction failed" \in Range(log)

(* the attributes of a field the validator does not write *)
Extracted(f) ==
    [name |-> f.name, value |-> f.value, confidence |-> f.confidence,
     source |-> f.source]

(* C26: the validation step keeps the number and the order of the fields  *)
(* and the name, value, confidence and source of each, and sets           *)
(* validation_passed and validation_notes of every field to what          *)
(* _validate_field gave for it; the scoring and packaging steps change no *)
(* field, and the result carries the fields as validation left them.      *)
C26_FieldsFrame ==
    [][/\ pc = "validate" =>
            /\ Len(extracted_fields') = Len(extracted_fields)
            /\ \A i \in 1..Len(extracted_fields) :
                  /\ Extracted(extracted_fields'[i]) = Extracted(extracted_fields[i])
                  /\ extracted_fields'[i].validation_passed
                        = _validate_field(extracted_fields[i]).passed
                  /\ extracted_fields'[i].validation_notes
                        = _validate_field(extracted_fields[i]).notes
                  /\ extracted_fields'[i].validation_notes # <<>>
       /\ pc \in {"score", "package"} => extracted_fields' = extracted_fields
       /\ (pc = "package" /\ outcome' = "returned" /\ handled' = None) =>
            result'.fields = extracted_fields]_vars

(* a call returned two fields, one that validation passed and one that it *)
(* failed with a note                                                     *)
C26_Witness ==
    /\ Returned
    /\ handled = None
    /\ Len(result.fields) = 2
    /\ result.fields = extracted_fields
    /\ \E i, j \in 1..2 :
          /\ result.fields[i].validation_passed
          /\ result.fields[i].validation_notes = <<Note("Valid", <<>>)>>
          /\ ~result.fields[j].validation_passed
          /\ result.fields[j].validation_notes \notin {<<>>, <<Note("Valid", <<>>)>>}

(* the weighted sum of the four sub-scores, clamped to [0, 1] *)
FieldConfidenceFormula(model, ocr_overlap, format_validity, relevance) ==
    Clamp01(RAdd(RAdd(RMul(Pct(40), model), RMul(Pct(30), ocr_overlap)),
                 RAdd(RMul(Pct(20), format_validity), RMul(Pct(10), relevance))))

MeanConfidence(fields) ==
    RDivInt(RSum([i \in 1..Len(fields) |-> fields[i].confidence]), Len(fields))

OverallConfidenceFormula(mean, type_detection, ocr_average, cross_validation,
                         field_count) ==
    Clamp01(RAdd(RAdd(RAdd(RMul(Pct(35), mean), RMul(Pct(20), type_detection)),
                      RAdd(RMul(Pct(20), ocr_average), RMul(Pct(15), cross_validation))),
                 RMul(Pct(10), RMin(Rat(field_count, 8), One))))

OcrFailed == "OCR extraction failed" \in Range(log)

(* the payload entries a field of the list can have come from *)
PayloadOf(f) ==
    {fd \in SampleFieldData :
        /\ fd.name = f.name /\ fd.value = f.value
        /\ fd.extraction_confidence.kind \in {"num", "absent"}}

(* C30: when the OCR raised, its result is the empty text, no word box    *)
(* and average confidence 0.0, and the call went on: it does not end      *)
(* before scoring was invoked; every extracted field then has its         *)
(* confidence computed with the OCR sub-score 0.5, and the overall        *)
(* confidence is computed with the OCR term 0.                            *)
C30_OcrFailureDegrades ==
    OcrFailed =>
        /\ ocr_data = NoOcr
        /\ pc # "ocr"
        /\ pc = "done" =>
             /\ Len(calls) >= 7
             /\ SubSeq(calls, 1, 7) = SubSeq(AllStages, 1, 7)
        /\ \A i \in 1..Len(extracted_fields) :
              /\ _get_ocr_confidence_for_text(extracted_fields[i].value, ocr_data)
                    = Rat(1, 2)
              /\ \E fd \in PayloadOf(extracted_fields[i]) :
                    extracted_fields[i].confidence =
                        FieldConfidenceFormula(
                            IF fd.extraction_confidence.kind = "absent" THEN Rat(1, 2)
                            ELSE fd.extraction_confidence.v,
                            Rat(1, 2),
                            _validate_field_format(fd.name, fd.value),
                            _get_field_relevance(fd.name, doc_type))
        /\ (overall_confidence.kind = "num" /\ extracted_fields # <<>>) =>
              overall_confidence =
                  Num(OverallConfidenceFormula(
                        MeanConfidence(extracted_fields), type_confidence.v, Zero,
                        qa_results.cross_validation_score, Len(extracted_fields)))

(* the OCR raised and the call returned a document with fields and an     *)
(* overall confidence above 0                                             *)
C30_Witness ==
    /\ OcrFailed
    /\ Returned
    /\ handled = None
    /\ calls = AllStages
    /\ result.fields # <<>>
    /\ result.metadata.ocr_confidence = Zero
    /\ RLt(Zero, result.overall_confidence.v)

(***************************************************************************)
(* Properties of validate_extraction (specification SpecValidate)          *)
(***************************************************************************)
Validated == pc = "score" /\ calls = <<"validate">>

(* the value of the field called name; "0" when absent or empty *)
AmountText(name) ==
    LET idx == {i \in 1..Len(extracted_fields) :
                   extracted_fields[i].name = name /\ extracted_fields[i].value # <<>>}
    IN  IF idx = {} THEN <<"0">> ELSE extracted_fields[CHOOSE i \in idx : TRUE].value

Amount(name) == _parse_amount(AmountText(name))

(* C7: a field with an empty value fails with the one rule empty_value;   *)
(* no passed rule, no format rule and no confidence_threshold rule is     *)
(* reported for it.                                                       *)
C7_EmptyValueOnly ==
    Validated =>
        \A i \in 1..Len(extracted_fields) :
            extracted_fields[i].value = <<>> =>
                /\ field_validation[i].passed = FALSE
                /\ field_validation[i].rules_failed = <<"empty_value">>
                /\ field_validation[i].rules_passed = <<>>
                /\ field_validation[i].notes = <<Note("Field is empty", <<>>)>>
                /\ extracted_fields[i].validation_passed = FALSE
                /\ "empty_value" \in qa_results.failed_rules

(* an empty date field of confidence 0.4 was validated: neither the date  *)
(* rule nor the confidence rule was reported                              *)
C7_Witness ==
    /\ Validated
    /\ \E i \in 1..Len(extracted_fields) :
          /\ extracted_fields[i].value = <<>>
          /\ extracted_fields[i].name = n_date
          /\ RLt(extracted_fields[i].confidence, MIN_FIELD_CONFIDENCE)
    /\ "date_format" \notin qa_results.failed_rules
    /\ "confidence_threshold" \notin qa_results.failed_rules

(* C8: for an invoice whose subtotal, tax and total parse, totals_match   *)
(* is passed iff |total - (subtotal + tax)| < 0.01 and failed otherwise;  *)
(* 80.00 + 8.00 against 88.00 passes, against 90.00 fails.                *)
C8_TotalsMatchIff ==
    (Validated /\ doc_type = "invoice"
               /\ Amount(n_subtotal).ok /\ Amount(n_tax).ok /\ Amount(n_total).ok) =>
        LET diff == RSub(Amount(n_total).val,
                         RAdd(Amount(n_subtotal).val, Amount(n_tax).val))
            close == RLt(RAbs(diff), Rat(1, 100))
        IN  /\ "totals_match" \in qa_results.passed_rules <=> close
            /\ "totals_match" \in qa_results.failed_rules <=> ~close
            /\ (AmountText(n_subtotal) = v_80 /\ AmountText(n_tax) = v_8) =>
                 /\ AmountText(n_total) = v_88 =>
                      "totals_match" \in qa_results.passed_rules
                 /\ AmountText(n_total) = v_90 =>
                      "totals_match" \in qa_results.failed_rules

(* the invoice 80.00 + 8.00 = 88.00 was validated and totals_match passed *)
C8_Witness ==
    /\ Validated /\ doc_type = "invoice"
    /\ AmountText(n_subtotal) = v_80 /\ AmountText(n_tax) = v_8
    /\ AmountText(n_total) = v_88
    /\ "totals_match" \in qa_results.passed_rules

(* the text s is in the note: s is numeric and the fixed text of a note   *)
(* has no digit, so s lies within one interpolated text                   *)
NoteContains(note, s) == \E i \in 1..Len(note.args) : Contains(note.args[i], s)

TotalsMatchFailed ==
    /\ Validated /\ doc_type = "invoice"
    /\ "totals_match" \in qa_results.failed_rules

(* C9 as stated: the note of a failed totals_match contains the expected  *)
(* total subtotal + tax and the actual total.                             *)
C9_AsStated ==
    TotalsMatchFailed =>
        \E k \in 1..Len(qa_results.notes) :
            /\ NoteContains(qa_results.notes[k],
                            FloatRepr(RAdd(Amount(n_subtotal).val, Amount(n_tax).val)))
            /\ NoteContains(qa_results.notes[k], FloatRepr(Amount(n_total).val))

(* C9 amended: the note of a failed totals_match shows the actual total,  *)
(* the subtotal and the tax, each as its own number ("Total mismatch:     *)
(* 90.0 != 80.0 + 8.0"); the sum subtotal + tax is not written out.       *)
C9_NoteShowsOperands ==
    TotalsMatchFailed =>
        \E k \in 1..Len(qa_results.notes) :
            /\ qa_results.notes[k].lit = "Total mismatch: {total} != {subtotal} + {tax}"
            /\ qa_results.notes[k].args =
                 <<FloatRepr(Amount(n_total).val), FloatRepr(Amount(n_subtotal).val),
                   FloatRepr(Amount(n_tax).val)>>

(* 80.00 + 8.00 against 90.00 failed; the note reads 90.0, 80.0 and 8.0   *)
C9_Witness ==
    /\ TotalsMatchFailed
    /\ AmountText(n_subtotal) = v_80 /\ AmountText(n_tax) = v_8
    /\ AmountText(n_total) = v_90
    /\ \E k \in 1..Len(qa_results.notes) :
          qa_results.notes[k].args =
             <<<<"9", "0", ".", "0">>, <<"8", "0", ".", "0">>, <<"8", ".", "0">>>>

(* C10: for a medical bill whose charges, insurance_paid and              *)
(* patient_responsibility parse, medical_amounts_match is passed iff      *)
(* |charges - (insurance_paid + patient_responsibility)| < 0.01 and       *)
(* failed otherwise; 100/60/40 passes, 100/50/40 fails.                   *)
C10_MedicalAmountsIff ==
    (Validated /\ doc_type = "medical_bill"
               /\ Amount(n_charges).ok /\ Amount(n_insurance_paid).ok
               /\ Amount(n_patient_responsibility).ok) =>
        LET diff == RSub(Amount(n_charges).val,
                         RAdd(Amount(n_insurance_paid).val,
                              Amount(n_patient_responsibility).val))
            close == RLt(RAbs(diff), Rat(1, 100))
        IN  /\ "medical_amounts_match" \in qa_results.passed_rules <=> close
            /\ "medical_amounts_match" \in qa_results.failed_rules <=> ~close
            /\ (AmountText(n_charges) = v_100
                    /\ AmountText(n_patient_responsibility) = v_40) =>
                 /\ AmountText(n_insurance_paid) = v_60 =>
                      "medical_amounts_match" \in qa_results.passed_rules
                 /\ AmountText(n_insurance_paid) = v_50 =>
                      "medical_amounts_match" \in qa_results.failed_rules

(* the medical bill 100 against 50 + 40 was validated and failed *)
C10_Witness ==
    /\ Validated /\ doc_type = "medical_bill"
    /\ AmountText(n_charges) = v_100 /\ AmountText(n_insurance_paid) = v_50
    /\ AmountText(n_patient_responsibility) = v_40
    /\ "medical_amounts_match" \in qa_results.failed_rules

(* the field called name is in the list with a non-empty value *)
Present(name) ==
    \E i \in 1..Len(extracted_fields) :
        extracted_fields[i].name = name /\ extracted_fields[i].value # <<>>

RequiredPrescriptionFields == {n_patient_name, n_medication_name, n_prescriber_name}

(* C11: for a prescription, prescription_required_fields is passed iff    *)
(* patient_name, medication_name and prescriber_name are all present with *)
(* a non-empty value; otherwise it is failed and its note lists exactly   *)
(* the required fields that are missing.                                  *)
C11_RequiredFieldsIff ==
    (Validated /\ doc_type = "prescription") =>
        LET missing == {n \in RequiredPrescriptionFields : ~Present(n)}
            listed == {k \in 1..Len(qa_results.notes) :
                          qa_results.notes[k].lit = "Missing required fields: "}
        IN  /\ "prescription_required_fields" \in qa_results.passed_rules
                  <=> missing = {}
            /\ "prescription_required_fields" \in qa_results.failed_rules
                  <=> missing # {}
            /\ missing = {} => listed = {}
            /\ missing # {} =>
                 /\ Cardinality(listed) = 1
                 /\ \A k \in listed :
                      /\ Range(qa_results.notes[k].args) = missing
                      /\ Len(qa_results.notes[k].args) = Cardinality(missing)

(* patient_name and medication_name present, prescriber_name empty: the   *)
(* rule failed and the note lists prescriber_name only                    *)
C11_Witness ==
    /\ Validated /\ doc_type = "prescription"
    /\ Present(n_patient_name) /\ Present(n_medication_name)
    /\ \E i \in 1..Len(extracted_fields) :
          extracted_fields[i].name = n_prescriber_name
    /\ "prescription_required_fields" \in qa_results.failed_rules
    /\ \E k \in 1..Len(qa_results.notes) :
          qa_results.notes[k] = Note("Missing required fields: ", <<n_prescriber_name>>)

(* C12 as stated: the score of a returned QualityAssurance is the number  *)
(* of names in its passed_rules over the number of names in its           *)
(* passed_rules and failed_rules, and 0 when both are empty.              *)
C12_ScoreOfReturnedLists ==
    Validated =>
        qa_results.cross_validation_score =
            IF qa_results.passed_rules \cup qa_results.failed_rules = {} THEN Zero
            ELSE Rat(Cardinality(qa_results.passed_rules),
                     Cardinality(qa_results.passed_rules)
                       + Cardinality(qa_results.failed_rules))

(* the names of the cross-field checks of _perform_cross_validation *)
CrossFieldRules ==
    {"totals_match", "totals_calculation", "medical_amounts_match",
     "medical_amounts_calculation", "prescription_required_fields",
     "refills_numeric", "date_fields_present"}

CrossPassed == Cardinality(qa_results.passed_rules \cap CrossFieldRules)
CrossFailed == Cardinality(qa_results.failed_rules \cap CrossFieldRules)

(* the per-field rule results that entered the rule lists: the passed     *)
(* rules of a field that passed, the failed rules of a field that failed  *)
FieldRulesPassed ==
    Len(Flatten([i \in 1..Len(field_validation) |->
                   IF field_validation[i].passed
                   THEN field_validation[i].rules_passed ELSE <<>>]))
FieldRulesFailed ==
    Len(Flatten([i \in 1..Len(field_validation) |->
                   IF field_validation[i].passed
                   THEN <<>> ELSE field_validation[i].rules_failed]))

(* C13 as stated: the score is the ratio of passed to total cross-field   *)
(* checks only; per-field rule outcomes do not change it.                 *)
C13_CrossFieldChecksOnly ==
    Validated =>
        qa_results.cross_validation_score =
            IF CrossPassed + CrossFailed = 0 THEN Zero
            ELSE Rat(CrossPassed, CrossPassed + CrossFailed)

(* C13 amended: the score is the ratio of passed to total rule results of *)
(* both kinds: each cross-field check counts once, and each field adds    *)
(* its per-field rules, every rule it passed when it passed them all,     *)
(* otherwise every rule it failed; a rule name that repeats across fields *)
(* counts each time.  It is 0 when nothing was counted.                   *)
C13_AllRuleResults ==
    Validated =>
        qa_results.cross_validation_score =
            IF FieldRulesPassed + FieldRulesFailed + CrossPassed + CrossFailed = 0
            THEN Zero
            ELSE Rat(FieldRulesPassed + CrossPassed,
                     FieldRulesPassed + FieldRulesFailed + CrossPassed + CrossFailed)

(* every cross-field check of an invoice passed, a field failed a         *)
(* per-field rule, and a passed rule name repeats: the score is below 1   *)
C13_Witness ==
    /\ Validated /\ doc_type = "invoice"
    /\ CrossPassed > 0 /\ CrossFailed = 0
    /\ FieldRulesFailed > 0
    /\ FieldRulesPassed > Cardinality(qa_results.passed_rules \ CrossFieldRules)
    /\ RLt(qa_results.cross_validation_score, One)

(* one of the amounts the cross check of the document type reads cannot  *)
(* be parsed: float() rejects what is left of it after the stripping      *)
InvoiceAmountMalformed ==
    \E n \in {n_subtotal, n_tax, n_total} : ~Amount(n).ok
MedicalAmountMalformed ==
    \E n \in {n_charges, n_insurance_paid, n_patient_responsibility} : ~Amount(n).ok

RefillsText ==
    LET idx == {i \in 1..Len(extracted_fields) : extracted_fields[i].name = n_refills}
    IN  IF idx = {} THEN <<>> ELSE extracted_fields[CHOOSE i \in idx : TRUE].value

OnlyDigits(s) == \A i \in 1..Len(s) : s[i] \in Digits

NoDateNote == Note("No date fields found", <<>>)

(* C25, as stated: whatever the document type, date_fields_present is     *)
(* passed if any field of the list has a name containing "date", and the  *)
(* date check adds no failed rule; without such a field it adds a note    *)
(* only.                                                                  *)
C25_DateFieldsPresentAsStated ==
    Validated =>
        LET dated == {i \in 1..Len(extracted_fields) :
                         Contains(Lower(extracted_fields[i].name), kw_date)}
        IN  /\ dated # {} => "date_fields_present" \in qa_results.passed_rules
            /\ dated = {} =>
                 /\ "date_fields_present" \notin qa_results.passed_rules
                 /\ NoDateNote \in Range(qa_results.notes)
            /\ "date_fields_present" \notin qa_results.failed_rules

(* C25, amended: whatever the document type, date_fields_present is       *)
(* passed if any field with a non-empty value has a name containing       *)
(* "date" (in any letter case), and the date check adds no failed rule;   *)
(* without such a field it adds a note only.                              *)
C25_DateFieldsWithValue ==
    Validated =>
        LET dated == {i \in 1..Len(extracted_fields) :
                         /\ extracted_fields[i].value # <<>>
                         /\ Contains(Lower(extracted_fields[i].name), kw_date)}
        IN  /\ dated # {} =>
                 /\ "date_fields_present" \in qa_results.passed_rules
                 /\ NoDateNote \notin Range(qa_results.notes)
            /\ dated = {} =>
                 /\ "date_fields_present" \notin qa_results.passed_rules
                 /\ NoDateNote \in Range(qa_results.notes)
            /\ "date_fields_present" \notin qa_results.failed_rules

(* the only date field of the list is empty: the rule is not passed and   *)
(* the note says that no date field was found                             *)
C25_Witness ==
    /\ Validated
    /\ \E i \in 1..Len(extracted_fields) :
          extracted_fields[i].name = n_date /\ extracted_fields[i].value = <<>>
    /\ \A i \in 1..Len(extracted_fields) : extracted_fields[i].name # n_Date
    /\ "date_fields_present" \notin qa_results.passed_rules
    /\ NoDateNote \in Range(qa_results.notes)

(* the fields that passed all their sub-rules, and those that did not *)
PassedFields ==
    {i \in 1..Len(extracted_fields) : _validate_field(extracted_fields[i]).passed}
FailedFields == (1..Len(extracted_fields)) \ PassedFields

RECURSIVE SumOver(_, _)
SumOver(S, f) ==
    IF S = {} THEN 0
    ELSE LET x == CHOOSE y \in S : TRUE IN f[x] + SumOver(S \ {x}, f)

(* C27: the per-field rule names among the passed rules of the document   *)
(* are those of the fields that passed every sub-rule, and the per-field  *)
(* names among the failed rules are the failed sub-rules of the other     *)
(* fields; a sub-rule that a failing field passed is in passed_rules only *)
(* when a field that passed contributed it, and the score counts the      *)
(* passed sub-rules of passing fields and the failed sub-rules of failing *)
(* fields only.                                                           *)
C27_FailedFieldGivesFailedTagsOnly ==
    Validated =>
        LET rp == [i \in 1..Len(extracted_fields) |->
                     _validate_field(extracted_fields[i]).rules_passed]
            rf == [i \in 1..Len(extracted_fields) |->
                     _validate_field(extracted_fields[i]).rules_failed]
            Ratio(p, f) == IF p + f = 0 THEN Zero ELSE Rat(p, p + f)
        IN  /\ qa_results.passed_rules \ CrossFieldRules
                  = UNION {Range(rp[i]) : i \in PassedFields}
            /\ qa_results.failed_rules \ CrossFieldRules
                  = UNION {Range(rf[i]) : i \in FailedFields}
            /\ \A i \in FailedFields : \A t \in Range(rp[i]) :
                  t \in qa_results.passed_rules =>
                      \E j \in PassedFields : t \in Range(rp[j])
            /\ qa_results.cross_validation_score =
                  Ratio(SumOver(PassedFields, [i \in PassedFields |-> Len(rp[i])])
                            + CrossPassed,
                        SumOver(FailedFields, [i \in FailedFields |-> Len(rf[i])])
                            + CrossFailed)

(* total "90.00" of confidence 0.4 is the only field with an amount rule: *)
(* it passed amount_format and failed confidence_threshold, and           *)
(* amount_format is not among the passed rules                            *)
C27_Witness ==
    /\ Validated
    /\ \E i \in FailedFields :
          /\ extracted_fields[i].name = n_total
          /\ "amount_format" \in Range(_validate_field(extracted_fields[i]).rules_passed)
    /\ "amount_format" \notin qa_results.passed_rules
    /\ "confidence_threshold" \in qa_results.failed_rules
    /\ PassedFields # {}

(* C28: the notes of a returned QualityAssurance read "All validations   *)
(* passed" only if its failed_rules is empty.                             *)
C28_AllPassedOnlyWithoutFailures ==
    Validated =>
        (qa_results.notes = <<Note("All validations passed", <<>>)>>
            => qa_results.failed_rules = {})

(* C29: no rule name is both in passed_rules and in failed_rules of a     *)
(* returned QualityAssurance.                                             *)
C29_PassedAndFailedDisjoint ==
    Validated => qa_results.passed_rules \cap qa_results.failed_rules = {}

(***************************************************************************)
(* Properties of the helpers (specification SpecCall)                      *)
(***************************************************************************)
CallReturned(fn) == pc = "returned" /\ args.fn = fn

(* C16: parsing an amount string gives the same result, the same number   *)
(* or the same failure, as parsing it with every character other than     *)
(* digits, "." and "-" removed; "$1,234.56" parses as "1234.56" does.     *)
C16_ParseIdempotent ==
    CallReturned("_parse_amount") =>
        /\ ret.parsed = ret.stripped
        /\ args.amount_str \in {v_1234_56, v_d1234_56} =>
             ret.parsed = [ok |-> TRUE, val |-> Rat(123456, 100)]

(* "$1,234.56" was parsed to 1234.56 *)
C16_Witness ==
    /\ CallReturned("_parse_amount")
    /\ args.amount_str = v_d1234_56
    /\ ret.parsed.ok
    /\ ret.parsed.val = Rat(123456, 100)
    /\ ret.stripped = ret.parsed

(* C18: the confidence of a field is clamp(0.4*model + 0.3*ocr_overlap +  *)
(* 0.2*format_validity + 0.1*relevance, 0, 1), model being the confidence *)
(* number the extraction payload reports for the field, whatever its      *)
(* size, or 0.5 when the payload has none.                                *)
C18_FieldConfidenceFormula ==
    (/\ CallReturned("_calculate_field_confidence")
     /\ args.field_data.extraction_confidence.kind \in {"num", "absent"}) =>
        ret = Num(FieldConfidenceFormula(
                    IF args.field_data.extraction_confidence.kind = "absent"
                    THEN Rat(1, 2)
                    ELSE args.field_data.extraction_confidence.v,
                    _get_ocr_confidence_for_text(args.field_data.value, args.ocr_data),
                    _validate_field_format(args.field_data.name, args.field_data.value),
                    _get_field_relevance(args.field_data.name, args.doc_type)))

(* a payload without extraction_confidence: subtotal "80.00", no word of  *)
(* the page overlaps, an invoice: 0.4*0.5 + 0.3*0.5 + 0.2*0.8 + 0.1*0.7   *)
C18_Witness ==
    /\ CallReturned("_calculate_field_confidence")
    /\ args.field_data = FieldData(n_subtotal, v_80, Absent)
    /\ args.ocr_data.word_boxes # <<>>
    /\ args.doc_type = "invoice"
    /\ ret = Num(Rat(58, 100))

(* C19: for a non-empty field list and a numeric type confidence the      *)
(* overall confidence is clamp(0.35*mean(field confidences) + 0.20*type   *)
(* confidence + 0.20*OCR average confidence + 0.15*cross-validation score *)
(* + 0.10*min(field_count/8, 1), 0, 1).                                   *)
C19_OverallConfidenceFormula ==
    (/\ CallReturned("_calculate_overall_confidence")
     /\ args.fields # <<>>
     /\ args.type_confidence.kind = "num") =>
        ret = Num(OverallConfidenceFormula(
                    MeanConfidence(args.fields), args.type_confidence.v,
                    args.ocr_data.average_confidence,
                    args.qa_results.cross_validation_score, Len(args.fields)))

(* more than eight fields, and a result the clamp left as it was: the cap *)
(* of the completeness term at 1 decided the value                        *)
C19_Witness ==
    /\ CallReturned("_calculate_overall_confidence")
    /\ Len(args.fields) > 8
    /\ args.type_confidence = Num(Pct(95))
    /\ args.qa_results.cross_validation_score = Rat(4, 5)
    /\ ret.kind = "num"
    /\ RLt(Zero, ret.v) /\ RLt(ret.v, One)

(* the configured keys that are substrings of the lower-cased field name, *)
(* as positions of VALIDATION_RULES                                        *)
ConfiguredKeysIn(nm) ==
    {i \in 1..Len(VALIDATION_RULES) : Contains(nm, VALIDATION_RULES[i].key)}

AmountLike(nm) == Contains(nm, kw_amount) \/ Contains(nm, kw_total)
DateLike(nm) == Contains(nm, kw_date)

(* the sub-score when no configured pattern decides: 0.8 or 0.4 for an    *)
(* amount-like name, else 0.8 or 0.4 for a date-like name, else 0.6       *)
GenericFormatScore(nm, value) ==
    IF AmountLike(nm) THEN (IF AmountPattern(value) THEN Pct(80) ELSE Pct(40))
    ELSE IF DateLike(nm) THEN (IF DatePrefixPattern(value) THEN Pct(80) ELSE Pct(40))
    ELSE Pct(60)

(* C20, as stated: 0.0 for an empty value; otherwise 0.9 if the value     *)
(* matches a configured pattern whose key is in the field name; else the  *)
(* generic amount score, else the generic date score, else 0.6; a name    *)
(* containing "date" with a value that is no date scores 0.4, and only    *)
(* 0.0, 0.4, 0.6, 0.8 and 0.9 are returned.                               *)
C20_FormatValidityAsStated ==
    CallReturned("_validate_field_format") =>
        LET Stated(nm, value) ==
                IF value = <<>> THEN Pct(0)
                ELSE IF \E i \in ConfiguredKeysIn(nm) :
                           RuleMatches(VALIDATION_RULES[i].rule, value)
                THEN Pct(90)
                ELSE GenericFormatScore(nm, value)
        IN  /\ ret = Stated(Lower(args.field_name), args.value)
            /\ ret \in {Pct(0), Pct(40), Pct(60), Pct(80), Pct(90)}

(* C20, amended: 0.0 for an empty value; otherwise, when a configured key *)
(* is in the lower-cased field name, the first such key in the order      *)
(* email, phone, date, amount decides: 0.9 if the value matches its       *)
(* pattern and 0.3 if it does not; when no key is in the name, the        *)
(* generic amount score, else the generic date score, else 0.6.  A name   *)
(* containing "date" with a value that matches no configured pattern      *)
(* scores 0.3, and only 0.0, 0.3, 0.4, 0.6, 0.8 and 0.9 are returned.     *)
C20_FormatValidityFirstKeyDecides ==
    CallReturned("_validate_field_format") =>
        LET Decided(keys, nm, value) ==
                IF value = <<>> THEN Pct(0)
                ELSE IF keys # {}
                THEN (IF \E i \in keys :
                            /\ \A j \in keys : i <= j
                            /\ RuleMatches(VALIDATION_RULES[i].rule, value)
                      THEN Pct(90) ELSE Pct(30))
                ELSE GenericFormatScore(nm, value)
            Amended(nm, value) == Decided(ConfiguredKeysIn(nm), nm, value)
        IN  /\ ret = Amended(Lower(args.field_name), args.value)
            /\ ret \in {Pct(0), Pct(30), Pct(40), Pct(60), Pct(80), Pct(90)}
            /\ (/\ DateLike(Lower(args.field_name))
                /\ args.value # <<>>
                /\ \A i \in 1..Len(VALIDATION_RULES) :
                      ~RuleMatches(VALIDATION_RULES[i].rule, args.value))
               => ret = Pct(30)

(* the field "date" with the value "Acme" was rated 0.3 *)
C20_Witness ==
    /\ CallReturned("_validate_field_format")
    /\ args.field_name = n_date
    /\ args.value = v_Acme
    /\ ret = Pct(30)

(* the format rules of the Field Validator: the keywords that select the  *)
(* rule, its tag and the text of its note                                 *)
FormatRuleTable ==
    {[keys |-> {kw_email}, rule |-> "email", tag |-> "email_format",
      text |-> "Invalid email format"],
     [keys |-> {kw_phone}, rule |-> "phone", tag |-> "phone_format",
      text |-> "Invalid phone format"],
     [keys |-> {kw_date}, rule |-> "date", tag |-> "date_format",
      text |-> "Invalid date format"],
     [keys |-> {kw_amount, kw_total, kw_price, kw_cost, kw_charge},
      rule |-> "amount", tag |-> "amount_format", text |-> "Invalid amount format"]}

Selected(r, name) == \E k \in r.keys : Contains(Lower(name), k)

ValidNotes == <<Note("Valid", <<>>)>>

(* C21: for a field with a value, each format rule whose keyword is in    *)
(* the lower-cased field name puts its tag among the passed rules when    *)
(* its pattern matches the value, and among the failed rules together     *)
(* with its note when it does not; a rule that is not selected leaves no  *)
(* tag; the field passes exactly when no rule failed, and its notes are   *)
(* "Valid" exactly when no rule failed.                                   *)
C21_FormatRulesBySubstring ==
    (CallReturned("_validate_field") /\ args.field.value # <<>>) =>
        /\ \A r \in FormatRuleTable :
              /\ r.tag \in Range(ret.rules_passed)
                   <=> (Selected(r, args.field.name)
                        /\ RuleMatches(r.rule, args.field.value))
              /\ r.tag \in Range(ret.rules_failed)
                   <=> (Selected(r, args.field.name)
                        /\ ~RuleMatches(r.rule, args.field.value))
              /\ r.tag \in Range(ret.rules_failed)
                   <=> Note(r.text, <<>>) \in Range(ret.notes)
        /\ Range(ret.rules_passed) \cup Range(ret.rules_failed)
              \subseteq {r.tag : r \in FormatRuleTable} \cup {"confidence_threshold"}
        /\ ret.passed <=> ret.rules_failed = <<>>
        /\ ret.notes = ValidNotes <=> ret.rules_failed = <<>>

(* "unit_price" with the value "Acme": the amount rule was selected by    *)
(* the keyword price and failed, the confidence rule passed               *)
C21_Witness ==
    /\ CallReturned("_validate_field")
    /\ args.field.name = n_unit_price
    /\ args.field.value = v_Acme
    /\ ret.rules_failed = <<"amount_format">>
    /\ ret.rules_passed = <<"confidence_threshold">>
    /\ ~ret.passed
    /\ ret.notes = <<Note("Invalid amount format", <<>>)>>

(* C22: for every field with a value, whichever format rules apply and    *)
(* whatever they give, confidence_threshold is among the passed rules     *)
(* when the confidence is at least the configured minimum and among the   *)
(* failed rules when it is below it.                                      *)
C22_ConfidenceThresholdIndependent ==
    (CallReturned("_validate_field") /\ args.field.value # <<>>) =>
        /\ "confidence_threshold" \in Range(ret.rules_passed)
              <=> RLe(MIN_FIELD_CONFIDENCE, args.field.confidence)
        /\ "confidence_threshold" \in Range(ret.rules_failed)
              <=> RLt(args.field.confidence, MIN_FIELD_CONFIDENCE)

(* a confidence equal to the minimum, on a field whose format rule failed *)
C22_Witness ==
    /\ CallReturned("_validate_field")
    /\ args.field.confidence = MIN_FIELD_CONFIDENCE
    /\ "date_format" \in Range(ret.rules_failed)
    /\ "confidence_threshold" \in Range(ret.rules_passed)
====
